---- MODULE Spec2Model ----
(***************************************************************************)
(* Model of the control core of the mle editor (editor.c, util.c): keymap  *)
(* tries and their construction, the dispatch resolver, the reentrant      *)
(* event loop with prompts, and macro recording / replay.                  *)
(*                                                                         *)
(* C strings are sequences of one-character strings; a keystroke           *)
(* (kinput_t) is a record [mod, ch, key]; a pointer to a trie node is the  *)
(* pair of the owning keymap's name and the node's path from the root.     *)
(***************************************************************************)
EXTENDS Integers, Sequences, FiniteSets, TLC

VARIABLES
    kmap_map,                 \* editor->kmap_map: name -> kmap_t
    func_map,                 \* editor->func_map: names whose funcref has a func
    kmap_init,                \* name of the kmap bview_new pushes first (-n)
    macro_toggle_key,         \* editor->macro_toggle_key
    bviews,                   \* view id -> bview_t (views that are allocated)
    all_bviews,               \* editor->all_bviews, the ring from its head
    top_bviews,               \* editor->top_bviews
    active,                   \* editor->active
    active_edit,              \* editor->active_edit
    active_edit_root,         \* editor->active_edit_root
    prompt,                   \* editor->prompt
    loop_depth,               \* editor->loop_depth
    loops,                    \* the running _editor_loop invocations, innermost last
    tty,                      \* terminal events already available to termbox
    macro_map,                \* editor->macro_map, in insertion order
    macro_record,             \* editor->macro_record
    is_recording_macro,       \* editor->is_recording_macro
    macro_apply,              \* editor->macro_apply
    macro_apply_input_index,  \* editor->macro_apply_input_index
    nkeys,                    \* number of keystrokes the user has typed so far
    scenario,                 \* which keys the user types in this run
    shell,                    \* the locals and descriptors of util_shell_exec
    rec_typed,                \* keystrokes read off the terminal while recording
    nbind,                    \* number of -k bindings processed so far
    async_procs,              \* editor->async_procs, in list order
    clock,                    \* the time of day gettimeofday would return
    hist,                     \* commands dispatched while recording and while
                              \* replaying (observation only)
    obs                       \* what the last step did (observation only)

kmapVars  == <<kmap_map, func_map, kmap_init, macro_toggle_key>>
viewVars  == <<bviews, all_bviews, top_bviews, active, active_edit,
               active_edit_root, prompt>>
macroVars == <<macro_map, macro_record, is_recording_macro, macro_apply,
               macro_apply_input_index>>
loopVars  == <<loop_depth, loops, tty, nkeys>>
asyncVars == <<async_procs, clock>>
vars == <<kmapVars, viewVars, macroVars, loopVars, asyncVars, scenario, shell,
          rec_typed,
          nbind, hist, obs>>

(***************************************************************************)
(* Bounds of the model.                                                    *)
(***************************************************************************)
\* keystrokes the user types in one run
MaxKeys == 6
\* keystrokes the user types in a run that records a macro and replays it
MaxKeysReplay == 8
\* keystrokes the user types in a run with async procs
MaxKeysAsync == 2
\* async procs started in one run
MaxProcs == 2
\* the last second the clock of the model reaches
MaxClockSec == 2
\* keystrokes the user types in a run that completes file names
MaxKeysComplete == 6
\* the size of loop_ctx->tab_complete_term, scaled down
MLE_LOOP_CTX_MAX_COMPLETE_TERM_SIZE == 3
\* views that the operations on views keep open at the same time
MaxViews == 3
\* terminal events that may be waiting, unread, at the same time
MaxPending == 2
\* bindings added to the keymap under construction in SpecTrie
MaxBindings == 3
\* the compile-time capacities of the loop context (mle.h), scaled down
MLE_LOOP_CTX_MAX_NUMERIC_LEN == 2
MLE_LOOP_CTX_MAX_NUMERIC_PARAMS == 2
MLE_LOOP_CTX_MAX_WILDCARD_PARAMS == 1

(***************************************************************************)
(* Basic values.                                                           *)
(***************************************************************************)
MLE_OK == "MLE_OK"
MLE_ERR == "MLE_ERR"
\* a null char* / cmd_funcref_t* (a name that no string or command has)
NULL == "NULL"
\* the contents of a freed node read as something else than what was stored
GARBAGE == "GARBAGE"

\* code points of the characters the model's strings use
Ord(c) ==
    CASE c = "0" -> 48 [] c = "1" -> 49 [] c = "2" -> 50 [] c = "9" -> 57
      [] c = " " -> 32 [] c = "#" -> 35 [] c = "*" -> 42 [] c = "'" -> 39
      [] c = "-" -> 45 [] c = "M" -> 77 [] c = "C" -> 67
      [] c = "a" -> 97 [] c = "b" -> 98 [] c = "c" -> 99 [] c = "d" -> 100
      [] c = "e" -> 101 [] c = "f" -> 102 [] c = "h" -> 104 [] c = "i" -> 105
      [] c = "j" -> 106 [] c = "m" -> 109 [] c = "n" -> 110 [] c = "r" -> 114
      [] c = "t" -> 116 [] c = "u" -> 117 [] c = "w" -> 119 [] c = "x" -> 120
      [] c = "y" -> 121 [] c = "," -> 44

KInput(mod, ch, key) == [mod |-> mod, ch |-> ch, key |-> key]
\* the sentinel keystrokes of the "##" and "**" tokens
MLE_KINPUT_NUMERIC == KInput(64, -1, 65535)
MLE_KINPUT_WILDCARD == KInput(128, -1, 65535)
\* the zeroed kinput_t
KInputZero == KInput(0, 0, 0)

\* the MLE_KEY_DEF table of named keys: <<name, mod, ch, key>>
MLE_KEY_DEFS ==
    { << <<"e","n","t","e","r">>, 0, 0, 13 >>,
      << <<"t","a","b">>, 0, 0, 9 >>,
      << <<"C","-","c">>, 0, 0, 3 >>,
      << <<"C","-","f">>, 0, 0, 6 >> }

\* _editor_key_to_input: [rv, input]
EditorKeyToInput(key) ==
    LET keylen == Len(key)
        defs == {d \in MLE_KEY_DEFS : d[1] = key}
    IN  IF keylen < 1 THEN [rv |-> MLE_ERR, input |-> KInputZero]
        ELSE IF defs # {} THEN
            LET d == CHOOSE d \in defs : TRUE
            IN  [rv |-> MLE_OK, input |-> KInput(d[2], d[3], d[4])]
        ELSE
            LET alt == keylen > 2 /\ SubSeq(key, 1, 2) = <<"M", "-">>
                rest == IF alt THEN SubSeq(key, 3, keylen) ELSE key
                ch == Ord(rest[1])
            IN  IF ch < 1 THEN [rv |-> MLE_ERR, input |-> KInputZero]
                ELSE [rv |-> MLE_OK,
                      input |-> KInput(IF alt THEN 1 ELSE 0, ch, 0)]

(***************************************************************************)
(* Keymap tries.  A trie is a function from paths (sequences of kinput_t,  *)
(* <<>> the root kmap->bindings) to nodes [funcref, static_param, freed].  *)
(***************************************************************************)
KNode(funcref, static_param) ==
    [funcref |-> funcref, static_param |-> static_param, freed |-> FALSE]

\* the calloc'ed root of a new kmap
EmptyTrie == (<<>> :> KNode(NULL, NULL))

\* node->children: the paths of the children of the node at path p
Children(t, p) ==
    {q \in DOMAIN t : Len(q) = Len(p) + 1 /\ SubSeq(q, 1, Len(p)) = p}

\* strchr(key_patt, ' '): index of the first space, 0 when there is none
StrChrSpace(s) ==
    IF \E i \in 1..Len(s) : s[i] = " "
    THEN CHOOSE i \in 1..Len(s) : s[i] = " " /\ \A j \in 1..(i-1) : s[j] # " "
    ELSE 0

\* free(node): the node stays linked in its parent's hash
FreeNode(t, p) == [t EXCEPT ![p].freed = TRUE]

RECURSIVE EditorInitKmapAddBindingToTrie(_, _, _, _, _)
\* _editor_init_kmap_add_binding_to_trie on the children of the node at
\* path parent: [rv, trie]
EditorInitKmapAddBindingToTrie(t, parent, funcref, key_patt, static_param) ==
    LET sp == StrChrSpace(key_patt)
        tok == IF sp = 0 THEN key_patt ELSE SubSeq(key_patt, 1, sp - 1)
        has_next == sp # 0
        next_key == IF sp = 0 THEN <<>>
                    ELSE SubSeq(key_patt, sp + 1, Len(key_patt))
        parsed == IF tok = <<"#", "#">>
                      THEN [rv |-> MLE_OK, input |-> MLE_KINPUT_NUMERIC]
                  ELSE IF tok = <<"*", "*">>
                      THEN [rv |-> MLE_OK, input |-> MLE_KINPUT_WILDCARD]
                  ELSE EditorKeyToInput(tok)
        p == Append(parent, parsed.input)
        t1 == IF p \in DOMAIN t THEN t ELSE t @@ (p :> KNode(NULL, NULL))
    IN  IF parsed.rv # MLE_OK THEN [rv |-> MLE_ERR, trie |-> t]
        ELSE IF has_next THEN
            LET r == EditorInitKmapAddBindingToTrie(t1, p, funcref, next_key,
                                                   static_param)
            IN  IF r.rv # MLE_OK
                THEN [rv |-> MLE_ERR, trie |-> FreeNode(r.trie, p)]
                ELSE [rv |-> MLE_OK, trie |-> r.trie]
        ELSE [rv |-> MLE_OK,
              trie |-> [t1 EXCEPT ![p].funcref = funcref,
                                  ![p].static_param = static_param]]

\* kmap_t
Kmap(name, default_funcref, allow_fallthru, bindings) ==
    [name |-> name, default_funcref |-> default_funcref,
     allow_fallthru |-> allow_fallthru, bindings |-> bindings]

\* _editor_init_kmap_add_binding: the kmap with the binding added (the
\* result of the insertion is not looked at)
EditorInitKmapAddBinding(kmap, cmd_name, key_patt, static_param) ==
    [kmap EXCEPT !.bindings =
        EditorInitKmapAddBindingToTrie(kmap.bindings, <<>>, cmd_name, key_patt,
                                       static_param).trie]

RECURSIVE AddDefs(_, _)
\* the while (defs && defs->key_patt) loop of _editor_init_kmap
AddDefs(kmap, defs) ==
    IF defs = <<>> THEN kmap
    ELSE AddDefs(EditorInitKmapAddBinding(kmap, defs[1][1], defs[1][2],
                                          defs[1][3]),
                 Tail(defs))

\* _editor_init_kmap: defs is a sequence of <<cmd, key_patt, static_param>>
EditorInitKmap(name, default_funcref, allow_fallthru, defs) ==
    AddDefs(Kmap(name, default_funcref, allow_fallthru, EmptyTrie), defs)

(***************************************************************************)
(* The keymaps of the model: a subset of the built-in ones, and a keymap   *)
(* "vi" defined on the command line (-K vi,cmd_vim_normal,0 with two -k).  *)
(***************************************************************************)
\* the bindings of mle_normal that the model keeps
NormalDefs ==
    << <<"cmd_move_relative", <<"M","-","y"," ","#","#"," ","u">>, "up">>,
       <<"cmd_move_relative", <<"M","-","y"," ","#","#"," ","d">>, "down">>,
       <<"cmd_move_until_forward", <<"M","-","'"," ","*","*">>, NULL>>,
       <<"cmd_search", <<"C","-","f">>, NULL>>,
       <<"cmd_copy_by", <<"C","-","c"," ","d">>, "bracket">>,
       <<"cmd_copy_by", <<"C","-","c"," ","w">>, "word">>,
       <<"cmd_apply_macro_by", <<"M","-","m"," ","*","*">>, NULL>> >>

\* the bindings of mle_prompt_input that the model keeps
PromptInputDefs ==
    << <<"_editor_prompt_input_submit", <<"e","n","t","e","r">>, NULL>>,
       <<"_editor_prompt_input_complete", <<"t","a","b">>, NULL>>,
       <<"_editor_prompt_cancel", <<"C","-","c">>, NULL>> >>

\* the -k bindings of the command-line keymap "vi"
ViDefs ==
    << <<"cmd_move_relative", <<"#","#"," ","j">>, "down">>,
       <<"cmd_move_down", <<"j">>, NULL>> >>

\* _editor_init_kmaps, and the -K/-k keymap: the registry editor->kmap_map
EditorInitKmaps ==
    [n \in {"mle_normal", "mle_prompt_input", "vi"} |->
        CASE n = "mle_normal" ->
                 EditorInitKmap(n, "cmd_insert_data", FALSE, NormalDefs)
          [] n = "mle_prompt_input" ->
                 EditorInitKmap(n, NULL, TRUE, PromptInputDefs)
          [] n = "vi" ->
                 EditorInitKmap(n, "cmd_vim_normal", FALSE, ViDefs)]

\* editor_register_cmd: the command names registered with a function
RegisteredFuncs ==
    {"cmd_insert_data", "cmd_vim_normal", "cmd_move_down"}
    \cup {NormalDefs[i][1] : i \in 1..Len(NormalDefs)}
    \cup {PromptInputDefs[i][1] : i \in 1..Len(PromptInputDefs)}

(***************************************************************************)
(* Loop context and command context of one _editor_loop invocation.        *)
(***************************************************************************)
\* a null kbinding_t*
NullNode == [kmap |-> NULL, path |-> <<>>]
NodePtr(kmap, path) == [kmap |-> kmap, path |-> path]
\* kmap->bindings
RootOf(kmap) == NodePtr(kmap, <<>>)

\* a null char* answer, and an answer that is a string
NullAnswer == [null |-> TRUE, str |-> <<>>]
Answer(str) == [null |-> FALSE, str |-> str]

\* memset(&loop_ctx, 0, ...) and memset(&cmd_ctx, 0, ...): the frame of a
\* loop; cont says what called the loop and resumes when it returns;
\* peek_changed says that a peek of this loop changed the context it resolved
\* in (observation only)
NewLoop(invoker, cont) ==
    [invoker |-> invoker, should_exit |-> FALSE, prompt_answer |-> NullAnswer,
     binding_node |-> NullNode, numeric |-> <<>>, numeric_node |-> NullNode,
     numeric_params |-> <<>>, wildcard_params |-> <<>>,
     need_more_input |-> FALSE, last_cmd |-> NULL,
     input |-> KInputZero, static_param |-> NULL, is_user_input |-> FALSE,
     pastebuf |-> <<>>, has_pastebuf_leftover |-> FALSE,
     pastebuf_leftover |-> KInputZero,
     tab_complete_term |-> <<>>, tab_complete_index |-> 0,
     cont |-> cont, chord |-> <<>>, peek_changed |-> FALSE]

\* strtoul(numeric, NULL, 10) of a buffer of digit code points
RECURSIVE Strtoul(_)
Strtoul(numeric) ==
    IF numeric = <<>> THEN 0
    ELSE 10 * Strtoul(SubSeq(numeric, 1, Len(numeric) - 1))
         + (numeric[Len(numeric)] - 48)

\* HASH_FIND(hh, node->children, input, ...)
HashFindChild(node, input) ==
    IF Append(node.path, input) \in DOMAIN kmap_map[node.kmap].bindings
    THEN NodePtr(node.kmap, Append(node.path, input))
    ELSE NullNode

NodeOf(ptr) == kmap_map[ptr.kmap].bindings[ptr.path]
HasChildren(ptr) == Children(kmap_map[ptr.kmap].bindings, ptr.path) # {}

IsDigit(input) == input.ch >= 48 /\ input.ch <= 57

\* a variant of the digit test that lets one digit too many in
NumericHasRoomOffByOne(lc) == Len(lc.numeric) <= MLE_LOOP_CTX_MAX_NUMERIC_LEN

\* the test that lets one more digit into loop_ctx->numeric
NumericHasRoom(lc) == Len(lc.numeric) < MLE_LOOP_CTX_MAX_NUMERIC_LEN

\* _editor_get_kbinding_node: [binding, again, lc]
EditorGetKbindingNode(node, input, lc, is_peek) ==
    LET nn == IF ~is_peek /\ IsDigit(input) /\ lc.numeric_node = NullNode
              THEN HashFindChild(node, MLE_KINPUT_NUMERIC)
              ELSE lc.numeric_node
        lc1 == [lc EXCEPT !.numeric_node = nn]
        Miss(l) == [binding |-> NullNode, again |-> FALSE, lc |-> l]
    IN  IF ~is_peek /\ IsDigit(input) /\ nn # NullNode THEN
            IF NumericHasRoom(lc1)
            THEN [binding |-> node, again |-> TRUE,
                  lc |-> [lc1 EXCEPT !.numeric = Append(@, input.ch)]]
            ELSE Miss(lc1)
        ELSE
            LET fin == ~is_peek /\ Len(lc1.numeric) > 0
                room == Len(lc1.numeric_params) < MLE_LOOP_CTX_MAX_NUMERIC_PARAMS
                lc2 == IF fin
                       THEN [lc1 EXCEPT
                               !.numeric_params =
                                   IF room THEN Append(@, Strtoul(lc1.numeric))
                                   ELSE @,
                               !.numeric = <<>>,
                               !.numeric_node = NullNode]
                       ELSE lc1
                node2 == IF fin THEN lc1.numeric_node ELSE node
                exact == HashFindChild(node2, input)
                wild == HashFindChild(node2, MLE_KINPUT_WILDCARD)
            IN  IF fin /\ ~room THEN Miss(lc2)
                ELSE IF exact # NullNode
                    THEN [binding |-> exact, again |-> FALSE, lc |-> lc2]
                ELSE IF ~is_peek /\ wild # NullNode THEN
                    IF Len(lc2.wildcard_params) < MLE_LOOP_CTX_MAX_WILDCARD_PARAMS
                    THEN [binding |-> wild, again |-> FALSE,
                          lc |-> [lc2 EXCEPT
                                    !.wildcard_params = Append(@, input.ch)]]
                    ELSE Miss(lc2)
                ELSE Miss(lc2)

\* what _editor_get_command returns: the funcref (NULL for none), the loop
\* context and command context after the call, and, for observation, the
\* keymaps consulted and how the funcref was found
CmdResult(ref, lc, consulted, via) ==
    [ref |-> ref, lc |-> lc, consulted |-> consulted, via |-> via]

RECURSIVE EditorGetCommandWhile(_, _, _, _, _, _, _, _)

\* the node the loop of _editor_get_command looks the input up in
StartNode(stack, kmap_node, node, is_top) ==
    IF is_top THEN RootOf(stack[kmap_node]) ELSE node

\* a variant of the loop body that treats a miss at any node as a miss at the
\* top level (the test of line 950 always true)
EditorGetCommandOnMissAnywhere(stack, kmap_node, node, input, r, is_peek, seen) ==
    LET kmap == kmap_map[stack[kmap_node]]
        more == IF is_peek THEN r.lc
                ELSE [r.lc EXCEPT !.need_more_input = TRUE,
                                  !.binding_node = r.binding]
    IN  IF r.binding # NullNode THEN
            IF r.again THEN CmdResult(NULL, more, seen, "none")
            ELSE IF NodeOf(r.binding).funcref # NULL THEN
                CmdResult(NodeOf(r.binding).funcref,
                          IF is_peek THEN r.lc
                          ELSE [r.lc EXCEPT !.static_param =
                                    NodeOf(r.binding).static_param],
                          seen, "leaf")
            ELSE IF HasChildren(r.binding)
                THEN CmdResult(NULL, more, seen, "none")
            ELSE CmdResult(NULL, r.lc, seen, "none")
        ELSE IF kmap.default_funcref # NULL
            THEN CmdResult(kmap.default_funcref, r.lc, seen, "default")
        ELSE IF kmap.allow_fallthru
            THEN EditorGetCommandWhile(stack, kmap_node - 1, node, TRUE, input,
                                       r.lc, is_peek, seen)
        ELSE CmdResult(NULL, r.lc, seen, "none")

\* the body of the loop of _editor_get_command after its call of
\* _editor_get_kbinding_node on node, which returned r
EditorGetCommandOn(stack, kmap_node, node, input, r, is_peek, seen) ==
    LET kmap == kmap_map[stack[kmap_node]]
        more == IF is_peek THEN r.lc
                ELSE [r.lc EXCEPT !.need_more_input = TRUE,
                                  !.binding_node = r.binding]
    IN  IF r.binding # NullNode THEN
            IF r.again THEN CmdResult(NULL, more, seen, "none")
            ELSE IF NodeOf(r.binding).funcref # NULL THEN
                CmdResult(NodeOf(r.binding).funcref,
                          IF is_peek THEN r.lc
                          ELSE [r.lc EXCEPT !.static_param =
                                    NodeOf(r.binding).static_param],
                          seen, "leaf")
            ELSE IF HasChildren(r.binding)
                THEN CmdResult(NULL, more, seen, "none")
            ELSE CmdResult(NULL, r.lc, seen, "none")
        ELSE IF node = RootOf(kmap.name) THEN
            IF kmap.default_funcref # NULL
            THEN CmdResult(kmap.default_funcref, r.lc, seen, "default")
            ELSE IF kmap.allow_fallthru
            THEN EditorGetCommandWhile(stack, kmap_node - 1, node, TRUE, input,
                                       r.lc, is_peek, seen)
            ELSE CmdResult(NULL, r.lc, seen, "none")
        ELSE CmdResult(NULL, r.lc, seen, "none")

\* the while (kmap_node) loop of _editor_get_command; kmap_node is an index
\* into the active view's keymap stack, 0 for null
EditorGetCommandWhile(stack, kmap_node, node, is_top, input, lc, is_peek, consulted) ==
    IF kmap_node = 0 THEN CmdResult(NULL, lc, consulted, "none")
    ELSE EditorGetCommandOn(
             stack, kmap_node, StartNode(stack, kmap_node, node, is_top), input,
             EditorGetKbindingNode(StartNode(stack, kmap_node, node, is_top),
                                   input, lc, is_peek),
             is_peek, Append(consulted, stack[kmap_node]))

\* a variant of _editor_get_command that reads loop_ctx->binding_node after
\* the reset of line 918: every input is resolved from the top
EditorGetCommandFromTop(stack, lc, input, is_peek) ==
    EditorGetCommandWhile(
        stack, Len(stack), NullNode, TRUE, input,
        [lc EXCEPT !.need_more_input = FALSE, !.binding_node = NullNode],
        is_peek, <<>>)

\* _editor_get_command for the loop frame lc and the keymap stack of the
\* active view
EditorGetCommand(stack, lc, input, is_peek) ==
    EditorGetCommandWhile(
        stack, Len(stack), lc.binding_node, lc.binding_node = NullNode, input,
        [lc EXCEPT !.need_more_input = FALSE, !.binding_node = NullNode],
        is_peek, <<>>)

\* _editor_resolve_funcref: TRUE when the funcref has a function
EditorResolveFuncref(ref) == ref \in func_map

(***************************************************************************)
(* Views.  The operators work on the record of the editor's view fields.   *)
(***************************************************************************)
NoView == 0

MLE_BVIEW_TYPE_EDIT == "EDIT"
MLE_BVIEW_TYPE_PROMPT == "PROMPT"

ViewState ==
    [bviews |-> bviews, all |-> all_bviews, top |-> top_bviews,
     active |-> active, active_edit |-> active_edit,
     active_edit_root |-> active_edit_root, prompt |-> prompt]

\* bview_new: a view with the initial keymap on its stack and an empty buffer
BviewNew(type) ==
    [type |-> type, kmaps |-> <<kmap_init>>, buffer |-> <<>>,
     split_parent |-> NoView, split_child |-> NoView]

\* malloc: the lowest identity that no allocated view has
FreshView(V) ==
    CHOOSE n \in 1..(Cardinality(DOMAIN V.bviews) + 1) :
        /\ n \notin DOMAIN V.bviews
        /\ \A m \in 1..(n - 1) : m \in DOMAIN V.bviews

\* editor_bview_exists
EditorBviewExists(V, bview) == \E i \in 1..Len(V.all) : V.all[i] = bview

MLE_BVIEW_IS_EDIT(V, bview) == V.bviews[bview].type = MLE_BVIEW_TYPE_EDIT

RECURSIVE BviewGetSplitRoot(_, _)
\* bview_get_split_root: the view reached by following split_parent
BviewGetSplitRoot(V, bview) ==
    IF V.bviews[bview].split_parent = NoView THEN bview
    ELSE BviewGetSplitRoot(V, V.bviews[bview].split_parent)

\* a variant of editor_set_active without the test of editor->prompt
EditorSetActiveInPrompt(V, bview) ==
    IF ~EditorBviewExists(V, bview) THEN [rv |-> MLE_ERR, v |-> V]
    ELSE [rv |-> MLE_OK,
          v |-> [V EXCEPT !.active = bview,
                          !.active_edit = IF MLE_BVIEW_IS_EDIT(V, bview)
                                          THEN bview ELSE @,
                          !.active_edit_root =
                              IF MLE_BVIEW_IS_EDIT(V, bview)
                              THEN BviewGetSplitRoot(V, bview) ELSE @]]

\* editor_set_active: [rv, v]
EditorSetActive(V, bview) ==
    IF ~EditorBviewExists(V, bview) THEN [rv |-> MLE_ERR, v |-> V]
    ELSE IF V.prompt # NoView THEN [rv |-> MLE_ERR, v |-> V]
    ELSE [rv |-> MLE_OK,
          v |-> [V EXCEPT !.active = bview,
                          !.active_edit = IF MLE_BVIEW_IS_EDIT(V, bview)
                                          THEN bview ELSE @,
                          !.active_edit_root =
                              IF MLE_BVIEW_IS_EDIT(V, bview)
                              THEN BviewGetSplitRoot(V, bview) ELSE @]]

\* editor_open_bview without a path: [v, bview]
EditorOpenBview(V, parent, type, make_active) ==
    LET bview == FreshView(V)
        linked == [V EXCEPT
                     !.bviews = IF parent = NoView
                                THEN @ @@ (bview :> BviewNew(type))
                                ELSE [@ @@ (bview :> BviewNew(type))
                                         EXCEPT ![parent].split_child = bview],
                     !.all = <<bview>> \o @,
                     !.top = IF parent = NoView THEN Append(@, bview) ELSE @]
    IN  [v |-> IF make_active THEN EditorSetActive(linked, bview).v ELSE linked,
         bview |-> bview]

\* bview_push_kmap
BviewPushKmap(V, bview, kmap) ==
    [V EXCEPT !.bviews[bview].kmaps = Append(@, kmap)]

RemoveView(seq, bview) == SelectSeq(seq, LAMBDA b : b # bview)

\* a variant of bview->all_prev that follows the ring the other way
AllPrevIsNext(V, bview) ==
    LET i == CHOOSE i \in 1..Len(V.all) : V.all[i] = bview
    IN  V.all[IF i = Len(V.all) THEN 1 ELSE i + 1]

\* bview->all_prev and bview->all_next in the ring editor->all_bviews
AllPrev(V, bview) ==
    LET i == CHOOSE i \in 1..Len(V.all) : V.all[i] = bview
    IN  V.all[IF i = 1 THEN Len(V.all) ELSE i - 1]
AllNext(V, bview) ==
    LET i == CHOOSE i \in 1..Len(V.all) : V.all[i] = bview
    IN  V.all[IF i = Len(V.all) THEN 1 ELSE i + 1]

\* a variant of line 447 that opens no view
OpenNoView(V) == V

\* line 447: editor_open_bview(editor, NULL, MLE_BVIEW_TYPE_EDIT, ..., 1, ...),
\* the blank view that replaces the last EDIT view
OpenBlankEdit(V) == EditorOpenBview(V, NoView, MLE_BVIEW_TYPE_EDIT, TRUE).v

RECURSIVE EditorCloseBviewInner(_, _, _)
\* _editor_close_bview_inner: [rv, v, num_closed]; order is the views it
\* destroyed, in the order of their bview_destroy (observation only)
EditorCloseBviewInner(V, bview, num_closed) ==
    IF ~EditorBviewExists(V, bview)
    THEN [rv |-> MLE_ERR, v |-> V, num_closed |-> num_closed, order |-> <<>>]
    ELSE
        LET child == V.bviews[bview].split_child
            c == IF child # NoView
                 THEN EditorCloseBviewInner(V, child, num_closed)
                 ELSE [rv |-> MLE_OK, v |-> V, num_closed |-> num_closed,
                       order |-> <<>>]
            V1 == c.v
            parent == V1.bviews[bview].split_parent
            prev == AllPrev(V1, bview)
            next == AllNext(V1, bview)
            V2 == IF parent # NoView THEN
                      EditorSetActive(
                          [V1 EXCEPT !.bviews[parent].split_child = NoView],
                          parent).v
                  ELSE IF prev # bview /\ MLE_BVIEW_IS_EDIT(V1, prev)
                      THEN EditorSetActive(V1, prev).v
                  ELSE IF next # bview /\ MLE_BVIEW_IS_EDIT(V1, next)
                      THEN EditorSetActive(V1, next).v
                  ELSE OpenBlankEdit(V1)
            V3 == [V2 EXCEPT
                     !.top = IF parent = NoView THEN RemoveView(@, bview) ELSE @,
                     !.all = RemoveView(@, bview),
                     !.bviews = [b \in DOMAIN @ \ {bview} |-> @[b]]]
        IN  [rv |-> MLE_OK, v |-> V3, num_closed |-> c.num_closed + 1,
             order |-> Append(c.order, bview)]

\* editor_close_bview: [rv, v, num_closed]
EditorCloseBview(V, bview) == EditorCloseBviewInner(V, bview, 0)

\* a variant of the nested-prompt test that lets every prompt open
PromptNeverRejects(V) == FALSE

\* util_shell_exec has not been called: nothing written, read or closed
NoShell ==
    [pc |-> "idle", input_len |-> 0, readbuf_len |-> 0, readfd |-> "0",
     writefd |-> "0", rv |-> "none", last |-> "none",
     closes |-> ("pout[0]" :> 0 @@ "pin[1]" :> 0)]

\* _editor_loop on entry: editor->loop_depth += 1
LoopEnter(depth) == depth + 1

\* a variant of the exit of _editor_loop that leaves loop_depth as it is
LoopLeaveKeepsDepth(depth) == depth

\* _editor_loop on exit: editor->loop_depth -= 1
LoopLeave(depth) == depth - 1

\* the test of editor_prompt that disallows nested prompts
EditorPromptRejects(V) == V.prompt # NoView

\* editor_prompt up to its call of _editor_loop, for a prompt that may open:
\* [v, loop]; cont is what called editor_prompt
EditorPromptOpen(V, kmap, cont) ==
    LET o == EditorOpenBview(V, NoView, MLE_BVIEW_TYPE_PROMPT, TRUE)
    IN  [v |-> BviewPushKmap([o.v EXCEPT !.prompt = o.bview], o.bview, kmap),
         loop |-> NewLoop(V.active, cont)]

\* editor_prompt after _editor_loop has returned: the views after the prompt
\* is closed and the invoker is active again
EditorPromptClose(V, loop_ctx) ==
    EditorSetActive(
        EditorCloseBview([V EXCEPT !.prompt = NoView], V.prompt).v,
        loop_ctx.invoker).v

(***************************************************************************)
(* Macros.                                                                 *)
(***************************************************************************)
\* kmacro_t; a null kmacro_t* is the record with null = TRUE
Kmacro(name, inputs) == [null |-> FALSE, name |-> name, inputs |-> inputs]
NullMacro == [null |-> TRUE, name |-> <<>>, inputs |-> <<>>]

\* the code points of a C string
RECURSIVE CodePoints(_)
\* one code point per character
CodePoints(str) ==
    IF str = <<>> THEN <<>> ELSE <<Ord(str[1])>> \o CodePoints(Tail(str))

\* a variant of the recording step that drops the input
RecordNothing(macro, input) == macro

\* _editor_record_macro_input
EditorRecordMacroInput(macro, input) ==
    [macro EXCEPT !.inputs = Append(@, input)]

RECURSIVE Strtok(_, _)
\* strtok(str, ","): the non-empty tokens between commas; cur is the token
\* being read
Strtok(str, cur) ==
    IF str = <<>> THEN (IF cur = <<>> THEN <<>> ELSE <<cur>>)
    ELSE IF str[1] = ","
        THEN (IF cur = <<>> THEN <<>> ELSE <<cur>>) \o Strtok(Tail(str), <<>>)
    ELSE Strtok(Tail(str), Append(cur, str[1]))

RECURSIVE AddMacroTokens(_, _)
\* the token loop of _editor_add_macro_by_str after the name: [rv, macro]
AddMacroTokens(macro, tokens) ==
    IF tokens = <<>> THEN [rv |-> MLE_OK, macro |-> macro]
    ELSE LET k == EditorKeyToInput(tokens[1])
         IN  IF k.rv # MLE_OK THEN [rv |-> MLE_ERR, macro |-> NullMacro]
             ELSE AddMacroTokens(EditorRecordMacroInput(macro, k.input),
                                 Tail(tokens))

\* _editor_add_macro_by_str: [rv, map]
EditorAddMacroByStr(map, str) ==
    LET tokens == Strtok(str, <<>>)
        r == IF tokens = <<>> THEN [rv |-> MLE_ERR, macro |-> NullMacro]
             ELSE AddMacroTokens(Kmacro(CodePoints(tokens[1]), <<>>),
                                 Tail(tokens))
    IN  IF r.rv = MLE_OK /\ Len(r.macro.inputs) > 0
        THEN [rv |-> MLE_OK, map |-> Append(map, r.macro)]
        ELSE [rv |-> MLE_ERR, map |-> map]

\* HASH_FIND_STR(editor->macro_map, name, macro): the entry found under a name
HashFindMacro(map, name) ==
    LET hits == {i \in 1..Len(map) : map[i].name = name}
    IN  IF hits = {} THEN NullMacro
        ELSE map[CHOOSE i \in hits : \A j \in hits : i <= j]

(***************************************************************************)
(* One turn of _editor_loop.  The operators work on the record Ed of the   *)
(* fields a turn may change; lc is the loop_context_t and cmd_context_t of *)
(* the innermost running loop.                                             *)
(***************************************************************************)
Top == loops[Len(loops)]

Ed ==
    [v |-> ViewState, lc |-> Top, tty |-> tty, macro_map |-> macro_map,
     macro_record |-> macro_record, is_recording_macro |-> is_recording_macro,
     macro_apply |-> macro_apply,
     macro_apply_input_index |-> macro_apply_input_index]

\* a variant of _editor_get_user_input that polls the terminal before it
\* looks at the leftover
EditorGetUserInputPollFirst(E) ==
    IF E.tty # <<>>
    THEN [E EXCEPT !.lc.pastebuf = <<>>,
                   !.lc.input = Head(E.tty),
                   !.tty = Tail(E.tty)]
    ELSE [E EXCEPT !.lc.pastebuf = <<>>,
                   !.lc.input = E.lc.pastebuf_leftover,
                   !.lc.has_pastebuf_leftover = FALSE]

\* _editor_get_user_input, called when an input is there to read
EditorGetUserInput(E) ==
    IF E.lc.has_pastebuf_leftover
    THEN [E EXCEPT !.lc.pastebuf = <<>>,
                   !.lc.input = E.lc.pastebuf_leftover,
                   !.lc.has_pastebuf_leftover = FALSE]
    ELSE [E EXCEPT !.lc.pastebuf = <<>>,
                   !.lc.input = Head(E.tty),
                   !.tty = Tail(E.tty)]

\* the macro_apply branch test of editor_get_input
Replaying(E) ==
    /\ ~E.macro_apply.null
    /\ E.macro_apply_input_index < Len(E.macro_apply.inputs)

\* editor_get_input
EditorGetInput(E) ==
    LET got == IF Replaying(E)
               THEN [E EXCEPT
                       !.lc.is_user_input = FALSE,
                       !.lc.input = E.macro_apply.inputs[E.macro_apply_input_index + 1],
                       !.macro_apply_input_index = @ + 1]
               ELSE [EditorGetUserInput(
                        [E EXCEPT !.macro_apply = NullMacro,
                                  !.macro_apply_input_index = 0])
                     EXCEPT !.lc.is_user_input = TRUE]
    IN  IF got.is_recording_macro /\ ~got.macro_record.null
        THEN [got EXCEPT !.macro_record = EditorRecordMacroInput(@, got.lc.input)]
        ELSE got

\* editor_get_input returns without blocking in tb_poll_event
InputReady(E) ==
    Replaying(E) \/ E.lc.has_pastebuf_leftover \/ E.tty # <<>>

\* editor->active->kmap_tail and its prev links
ActiveKmaps(E) == E.v.bviews[E.v.active].kmaps

\* the fields of the loop context and the command context that a resolution
\* may write are the same in lc and after
PeekKeeps(lc, after) ==
    /\ after.binding_node = lc.binding_node
    /\ after.need_more_input = lc.need_more_input
    /\ after.numeric = lc.numeric
    /\ after.numeric_node = lc.numeric_node
    /\ after.numeric_params = lc.numeric_params
    /\ after.wildcard_params = lc.wildcard_params
    /\ after.static_param = lc.static_param

\* a variant of line 869 that resolves the peeked event as an input
EditorCommitPeeked(stack, lc, input) == EditorGetCommand(stack, lc, input, FALSE)

\* line 869: _editor_get_command(editor, ctx, &input)
EditorPeekCommand(stack, lc, input) == EditorGetCommand(stack, lc, input, TRUE)

RECURSIVE EditorIngestPaste(_)

\* the body of the peek loop of _editor_ingest_paste for a peeked event:
\* r is what _editor_get_command returned for it
EditorIngestPeeked(E, input, r) ==
    IF r.ref # NULL /\ r.ref = "cmd_insert_data" /\ r.ref \in func_map
    THEN EditorIngestPaste(
             [E EXCEPT !.lc = [r.lc EXCEPT
                                 !.pastebuf = Append(@, input),
                                 !.peek_changed = @ \/ ~PeekKeeps(E.lc, r.lc)],
                       !.tty = Tail(@)])
    ELSE [E EXCEPT !.lc = [r.lc EXCEPT
                             !.has_pastebuf_leftover = TRUE,
                             !.pastebuf_leftover = input,
                             !.peek_changed = @ \/ ~PeekKeeps(E.lc, r.lc)],
                   !.tty = Tail(@)]

\* a variant of _editor_ingest_paste that peeks nothing
EditorIngestNothing(E) == E

\* _editor_ingest_paste after its reset of pastebuf_len: the peek loop
EditorIngestPaste(E) ==
    IF E.tty = <<>> THEN E
    ELSE EditorIngestPeeked(
             E, Head(E.tty),
             EditorPeekCommand(ActiveKmaps(E), E.lc, Head(E.tty)))

(***************************************************************************)
(* Commands.  A command returns [e, prompts]: the fields after it ran, or, *)
(* when it calls editor_prompt and the prompt opens, the fields at the     *)
(* point where the nested loop starts.                                     *)
(***************************************************************************)
\* what called editor_prompt: a command of the loop, or the macro toggle
MainCont == [kind |-> "main", ref |-> NULL]
ToggleCont == [kind |-> "toggle", ref |-> NULL]
CmdCont(ref) == [kind |-> "cmd", ref |-> ref]

RECURSIVE InsertedChars(_)
\* the characters cmd_insert_data inserts for a sequence of keystrokes (the
\* input, then the paste buffer): the code point of every one that has one
InsertedChars(ins) ==
    IF ins = <<>> THEN <<>>
    ELSE (IF ins[1].ch # 0 THEN <<ins[1].ch>> ELSE <<>>)
         \o InsertedChars(Tail(ins))

\* cmd_insert_data; only the buffers of prompt views are kept
CmdInsertData(E) ==
    IF E.v.bviews[E.v.active].type = MLE_BVIEW_TYPE_PROMPT
    THEN [E EXCEPT !.v.bviews[E.v.active].buffer =
                       @ \o InsertedChars(<<E.lc.input>> \o E.lc.pastebuf)]
    ELSE E

RECURSIVE Strndup(_)
\* strndup(answer, answer_len): the characters up to the first NUL
Strndup(str) ==
    IF str = <<>> \/ str[1] = 0 THEN <<>>
    ELSE <<str[1]>> \o Strndup(Tail(str))

\* a variant of _editor_prompt_input_submit that leaves the exit flag alone
EditorPromptInputSubmitNoExit(E) ==
    [E EXCEPT !.lc.prompt_answer = Answer(Strndup(E.v.bviews[E.v.active].buffer))]

\* _editor_prompt_input_submit
EditorPromptInputSubmit(E) ==
    [E EXCEPT !.lc.prompt_answer = Answer(Strndup(E.v.bviews[E.v.active].buffer)),
              !.lc.should_exit = TRUE]

\* _editor_prompt_cancel
EditorPromptCancel(E) ==
    [E EXCEPT !.lc.prompt_answer = NullAnswer, !.lc.should_exit = TRUE]

\* the names of the files of the working directory, as code points, sorted:
\* xa, xb, xx
Files == << <<120, 97>>, <<120, 98>>, <<120, 120>> >>

RECURSIVE UtilEscapeShellArgChars(_)
\* the for loop of util_escape_shell_arg: a quote becomes '\''
UtilEscapeShellArgChars(str) ==
    IF str = <<>> THEN <<>>
    ELSE (IF str[1] = 39 THEN <<39, 92, 39, 39>> ELSE <<str[1]>>)
         \o UtilEscapeShellArgChars(Tail(str))

\* util_escape_shell_arg: the string between single quotes
UtilEscapeShellArg(str) == <<39>> \o UtilEscapeShellArgChars(str) \o <<39>>

RECURSIVE ShellWord(_, _)
\* the word bash reads from w: single quotes group, a backslash outside them
\* takes the next character as it is
ShellWord(w, quoted) ==
    IF w = <<>> THEN <<>>
    ELSE IF w[1] = 39 THEN ShellWord(Tail(w), ~quoted)
    ELSE IF ~quoted /\ w[1] = 92 /\ Len(w) > 1
        THEN <<w[2]>> \o ShellWord(SubSeq(w, 3, Len(w)), quoted)
    ELSE <<w[1]>> \o ShellWord(Tail(w), quoted)

RECURSIVE Lines(_)
\* every name followed by a newline
Lines(names) ==
    IF names = <<>> THEN <<>>
    ELSE names[1] \o <<10>> \o Lines(Tail(names))

\* what util_shell_exec returns for "compgen -f <cmd_arg> | sort": the names
\* of the files that start with the word, sorted, one per line
CompgenSorted(cmd_arg) ==
    Lines(SelectSeq(Files,
                    LAMBDA f : /\ Len(ShellWord(cmd_arg, FALSE)) <= Len(f)
                               /\ SubSeq(f, 1, Len(ShellWord(cmd_arg, FALSE)))
                                      = ShellWord(cmd_arg, FALSE)))

RECURSIVE StrtokLines(_, _)
\* strtok(terms, "\n"): the non-empty tokens between newlines; cur is the
\* token being read
StrtokLines(str, cur) ==
    IF str = <<>> THEN (IF cur = <<>> THEN <<>> ELSE <<cur>>)
    ELSE IF str[1] = 10
        THEN (IF cur = <<>> THEN <<>> ELSE <<cur>>) \o StrtokLines(Tail(str), <<>>)
    ELSE StrtokLines(Tail(str), Append(cur, str[1]))

\* a variant of line 527 that takes the term after the one the index names
TermIndexOffByOne(index, num_terms) == (index + 1) % num_terms

\* line 527: term_index = loop_ctx->tab_complete_index % num_terms
TermIndex(index, num_terms) == index % num_terms

\* _editor_prompt_input_complete from line 510 on: lc is the loop context
\* after the update of the term and the index, terms what the shell printed
EditorPromptInputCompleteOn(E, lc, terms) ==
    LET num_terms == Cardinality({i \in 1..Len(terms) : terms[i] = 10})
        tokens == StrtokLines(terms, <<>>)
    IN  IF num_terms < 1 THEN [E EXCEPT !.lc = lc]
        ELSE IF TermIndex(lc.tab_complete_index, num_terms) < Len(tokens)
            THEN [E EXCEPT
                    !.lc = lc,
                    !.v.bviews[E.v.active].buffer =
                        tokens[TermIndex(lc.tab_complete_index, num_terms) + 1]]
        ELSE [E EXCEPT !.lc = lc]

\* _editor_prompt_input_complete from line 497 on
EditorPromptInputCompleteFor(E, lc) ==
    EditorPromptInputCompleteOn(
        E, lc, CompgenSorted(UtilEscapeShellArg(lc.tab_complete_term)))

\* _editor_prompt_input_complete
EditorPromptInputComplete(E) ==
    IF E.lc.last_cmd = "_editor_prompt_input_complete"
    THEN EditorPromptInputCompleteFor(
             E, [E.lc EXCEPT !.tab_complete_index = @ + 1])
    ELSE IF Len(E.v.bviews[E.v.active].buffer) < MLE_LOOP_CTX_MAX_COMPLETE_TERM_SIZE
    THEN EditorPromptInputCompleteFor(
             E, [E.lc EXCEPT !.tab_complete_term = E.v.bviews[E.v.active].buffer,
                             !.tab_complete_index = 0])
    ELSE E

\* cmd_apply_macro_by: replay the macro named by the wildcard character
CmdApplyMacroBy(E) ==
    LET macro == IF E.lc.wildcard_params = <<>> THEN NullMacro
                 ELSE HashFindMacro(E.macro_map, <<E.lc.wildcard_params[1]>>)
    IN  IF macro.null THEN E
        ELSE [E EXCEPT !.macro_apply = macro, !.macro_apply_input_index = 0]

\* the commands that ask the user something through editor_prompt
PromptingCmds == {"cmd_search"}

\* cmd_fn(&cmd_ctx)
CmdFn(E, ref) ==
    IF ref \in PromptingCmds THEN
        IF EditorPromptRejects(E.v)
        THEN [e |-> E, prompts |-> FALSE, prompt_rc |-> MLE_ERR]
        ELSE [e |-> E, prompts |-> TRUE, prompt_rc |-> "none"]
    ELSE [prompts |-> FALSE, prompt_rc |-> "none",
          e |-> CASE ref = "cmd_insert_data" -> CmdInsertData(E)
                  [] ref = "_editor_prompt_input_submit" -> EditorPromptInputSubmit(E)
                  [] ref = "_editor_prompt_cancel" -> EditorPromptCancel(E)
                  [] ref = "_editor_prompt_input_complete" ->
                         EditorPromptInputComplete(E)
                  [] ref = "cmd_apply_macro_by" -> CmdApplyMacroBy(E)
                  [] OTHER -> E]

\* a variant of the clean-up after a command that keeps the numeric parameters
AfterCmdKeepNumeric(lc, ref) ==
    [lc EXCEPT !.binding_node = NullNode, !.wildcard_params = <<>>,
               !.last_cmd = ref]

\* lines 714-717 of _editor_loop, after the command has returned
AfterCmd(lc, ref) ==
    [lc EXCEPT !.binding_node = NullNode, !.wildcard_params = <<>>,
               !.numeric_params = <<>>, !.last_cmd = ref]

\* the outcome of a turn: the fields after it, whether it entered a nested
\* loop (and what for), and what it did
TurnResult(e, push, cont, outcome, cmd, seen, res, prompt_rc) ==
    [e |-> e, push |-> push, cont |-> cont, outcome |-> outcome, cmd |-> cmd,
     seen |-> seen, res |-> res, prompt_rc |-> prompt_rc]

NoRes == CmdResult(NULL, Top, <<>>, "none")

\* _editor_maybe_toggle_macro for an input that is the toggle key
EditorMaybeToggleMacro(E) ==
    IF E.is_recording_macro THEN
        TurnResult([E EXCEPT
                      !.macro_map = Append(@,
                          [E.macro_record EXCEPT !.inputs =
                              IF Len(@) > 0 THEN SubSeq(@, 1, Len(@) - 1) ELSE @]),
                      !.macro_record = NullMacro,
                      !.is_recording_macro = FALSE],
                   FALSE, MainCont, "toggle_stop", NULL, E.lc, NoRes, "none")
    ELSE IF EditorPromptRejects(E.v) THEN
        TurnResult(E, FALSE, MainCont, "toggle_rejected", NULL, E.lc, NoRes, MLE_ERR)
    ELSE TurnResult(E, TRUE, ToggleCont, "toggle_prompt", NULL, E.lc, NoRes, "none")

\* lines 710-717 of _editor_loop: the command of funcref r.ref runs
EditorExecute(E, r) ==
    LET x == CmdFn(E, r.ref)
    IN  IF x.prompts
        THEN TurnResult(x.e, TRUE, CmdCont(r.ref), "prompting", r.ref, E.lc, r,
                        x.prompt_rc)
        ELSE TurnResult([x.e EXCEPT !.lc = AfterCmd(@, r.ref)], FALSE, MainCont,
                        "executed", r.ref, E.lc, r, x.prompt_rc)

\* lines 703-724 of _editor_loop, r being what _editor_get_command returned
\* and E the fields after that call
EditorDispatchOn(E, r) ==
    IF r.ref # NULL THEN
        IF EditorResolveFuncref(r.ref) THEN
            EditorExecute(IF E.lc.is_user_input /\ r.ref = "cmd_insert_data"
                          THEN EditorIngestPaste([E EXCEPT !.lc.pastebuf = <<>>])
                          ELSE E,
                          r)
        ELSE TurnResult(E, FALSE, MainCont, "no_func", r.ref, E.lc, r, "none")
    ELSE IF r.lc.need_more_input THEN
        TurnResult(E, FALSE, MainCont, "need_more", NULL, E.lc, r, "none")
    ELSE TurnResult([E EXCEPT !.lc.binding_node = NullNode],
                    FALSE, MainCont, "unbound", NULL, E.lc, r, "none")

\* the fields after _editor_get_command returned r for the input of E; chord
\* is the inputs of the chord so far (observation only)
AfterGetCommand(E, r) ==
    [E EXCEPT !.lc = [r.lc EXCEPT !.chord = IF E.lc.binding_node = NullNode
                                            THEN <<E.lc.input>>
                                            ELSE Append(@, E.lc.input)]]

\* the dispatch of the input of E, r being what _editor_get_command returns
EditorDispatchWith(E, r) == EditorDispatchOn(AfterGetCommand(E, r), r)

\* lines 703-724 of _editor_loop
EditorDispatch(E) ==
    EditorDispatchWith(E, EditorGetCommand(ActiveKmaps(E), E.lc, E.lc.input, FALSE))

\* lines 698-724 of _editor_loop, for the fields after editor_get_input
EditorToggleOrDispatch(E) ==
    IF E.lc.input = macro_toggle_key
    THEN EditorMaybeToggleMacro(E)
    ELSE EditorDispatch(E)

\* one iteration of the while loop of _editor_loop, from editor_get_input on
EditorLoopTurn(E) == EditorToggleOrDispatch(EditorGetInput(E))

(***************************************************************************)
(* The runs of the model.  A scenario fixes the command line (the initial  *)
(* keymap of -n, the macros of -M) and the keys the user may type.         *)
(***************************************************************************)
Key(name) == EditorKeyToInput(name).input

Scenarios == {"chord", "wild", "vi", "macro", "prompt"}

ScenarioKeys(s) ==
    CASE s = "chord" -> {Key(<<"M","-","y">>), Key(<<"1">>), Key(<<"2">>),
                         Key(<<"u">>), Key(<<"x">>)}
      [] s = "wild" -> {Key(<<"M","-","'">>), Key(<<"x">>), Key(<<"C","-","c">>),
                        Key(<<"d">>)}
      [] s = "vi" -> {Key(<<"1">>), Key(<<"j">>), Key(<<"M","-","r">>),
                      Key(<<"e","n","t","e","r">>)}
      [] s = "macro" -> {Key(<<"M","-","r">>), Key(<<"e","n","t","e","r">>),
                         Key(<<"x">>), Key(<<"M","-","m">>)}
      [] s = "prompt" -> {Key(<<"C","-","f">>), Key(<<"M","-","r">>), Key(<<"x">>),
                          Key(<<"e","n","t","e","r">>), Key(<<"C","-","c">>)}
      [] s = "replay" -> {Key(<<"M","-","r">>), Key(<<"y">>),
                          Key(<<"e","n","t","e","r">>), Key(<<"M","-","m">>)}
      [] s = "complete" -> {Key(<<"M","-","r">>), Key(<<"x">>),
                            Key(<<"t","a","b">>), Key(<<"e","n","t","e","r">>)}
      [] s = "async" -> {Key(<<"M","-","r">>), Key(<<"C","-","c">>)}
      [] s = "async_prompt" -> {Key(<<"C","-","f">>), Key(<<"C","-","c">>)}
      [] OTHER -> {}

\* the number of keystrokes the user types in a run
KeyBudget(s) ==
    CASE s = "replay" -> MaxKeysReplay
      [] s = "async" -> MaxKeysAsync
      [] s = "async_prompt" -> MaxKeysAsync
      [] s = "complete" -> MaxKeysComplete
      [] OTHER -> MaxKeys

\* -n <kmap>
ScenarioKmapInit(s) == IF s = "vi" THEN "vi" ELSE "mle_normal"

\* -M <macro>
ScenarioMacros(s) ==
    IF s = "macro" THEN EditorAddMacroByStr(<<>>, <<"x", ",", "h">>).map ELSE <<>>

\* struct timeval
Timeval(sec, usec) == [tv_sec |-> sec, tv_usec |-> usec]

\* a variant of the loop body that reads the input before it drains
LoopStepsInputFirst(drain_called, callbacks, got_input, dispatches) ==
    <<"draw">>
    \o (IF got_input THEN <<"input">> ELSE <<>>)
    \o (IF drain_called THEN <<"drain">> \o callbacks ELSE <<>>)
    \o (IF got_input THEN <<"toggle">> ELSE <<>>)
    \o (IF got_input /\ dispatches THEN <<"dispatch">> ELSE <<>>)

\* the steps of one iteration of the while loop of _editor_loop, in the order
\* the body takes them: editor_display (687), _editor_drain_async_procs when
\* there are procs (691) with the callbacks it made, editor_get_input (696),
\* _editor_maybe_toggle_macro (699), _editor_get_command and cmd_fn (703-713)
LoopSteps(drain_called, callbacks, got_input, dispatches) ==
    <<"draw">>
    \o (IF drain_called THEN <<"drain">> \o callbacks ELSE <<>>)
    \o (IF got_input THEN <<"input">> ELSE <<>>)
    \o (IF got_input THEN <<"toggle">> ELSE <<>>)
    \o (IF got_input /\ dispatches THEN <<"dispatch">> ELSE <<>>)

EmptyViews ==
    [bviews |-> <<>>, all |-> <<>>, top |-> <<>>,
     active |-> NoView, active_edit |-> NoView,
     active_edit_root |-> NoView, prompt |-> NoView]

NoObs ==
    [step |-> "none", outcome |-> "none", input |-> KInputZero,
     is_user_input |-> FALSE, cmd |-> NULL, seen |-> NewLoop(NoView, MainCont),
     consulted |-> <<>>, via |-> "none", prompt_rc |-> "none",
     answer |-> NullAnswer, cont |-> MainCont, rv |-> "none",
     key_patt |-> <<>>, pre_trie |-> EmptyTrie,
     pre |-> NewLoop(NoView, MainCont), pre_kmaps |-> <<>>,
     pre_views |-> EmptyViews, pre_depth |-> 0, pre_frames |-> 0,
     pre_record |-> NullMacro, pre_recording |-> FALSE,
     steps |-> <<>>, pre_procs |-> <<>>, tty_ready |-> FALSE,
     select |-> "none", callbacks |-> <<>>, destroyed |-> <<>>,
     now |-> Timeval(0, 0), parity |-> 0, bview |-> NoView,
     invoker |-> NoView, ret_views |-> EmptyViews, num_closed |-> 0,
     order |-> <<>>]

\* what the resolver reads of the editor when an input is dispatched: the
\* keymap stack of the active view and the chord state of the loop context
Snapshot(V, lc) ==
    [kmaps |-> V.bviews[V.active].kmaps, binding_node |-> lc.binding_node,
     numeric |-> lc.numeric, numeric_node |-> lc.numeric_node,
     numeric_params |-> lc.numeric_params,
     wildcard_params |-> lc.wildcard_params]

NoSnapshot ==
    [kmaps |-> <<>>, binding_node |-> NullNode, numeric |-> <<>>,
     numeric_node |-> NullNode, numeric_params |-> <<>>,
     wildcard_params |-> <<>>]

\* nothing recorded, nothing replayed
NoHist ==
    [rec_cmds |-> <<>>, rec_start |-> NoSnapshot, recorded |-> <<>>,
     replay |-> NullMacro, replay_cmds |-> <<>>, replay_start |-> NoSnapshot,
     tab_orig |-> <<>>, tab_shown |-> <<>>]

\* the commands a turn dispatched: cmd_fn was called at line 713
DispatchedCmds(t) ==
    IF t.outcome \in {"executed", "prompting"} THEN <<t.cmd>> ELSE <<>>

\* a turn whose command made editor->macro_apply point at a macro
StartsReplay(t) ==
    /\ t.outcome = "executed"
    /\ t.cmd = "cmd_apply_macro_by"
    /\ ~t.e.macro_apply.null
    /\ t.e.macro_apply_input_index = 0

\* a turn that ran _editor_prompt_input_complete
TabPress(t) ==
    t.outcome = "executed" /\ t.cmd = "_editor_prompt_input_complete"

\* the buffer of the active view
ActiveBuffer(V) == V.bviews[V.active].buffer

\* the history after a turn whose outcome is t and which leaves the views V
\* and the innermost loop context lc
HistTurn(t, V, lc) ==
    [rec_cmds |-> IF t.outcome = "toggle_stop" THEN <<>>
                  ELSE IF is_recording_macro
                      THEN hist.rec_cmds \o DispatchedCmds(t)
                  ELSE hist.rec_cmds,
     rec_start |-> hist.rec_start,
     recorded |-> IF t.outcome = "toggle_stop"
                  THEN Append(hist.recorded,
                              [macro |-> t.e.macro_map[Len(t.e.macro_map)],
                               cmds |-> hist.rec_cmds,
                               start |-> hist.rec_start])
                  ELSE hist.recorded,
     replay |-> IF StartsReplay(t) THEN t.e.macro_apply ELSE hist.replay,
     replay_cmds |-> IF StartsReplay(t) THEN <<>>
                     ELSE IF ~t.seen.is_user_input
                         THEN hist.replay_cmds \o DispatchedCmds(t)
                     ELSE hist.replay_cmds,
     replay_start |-> IF StartsReplay(t) THEN Snapshot(V, lc)
                      ELSE hist.replay_start,
     tab_orig |-> IF TabPress(t) THEN
                      IF t.seen.last_cmd = t.cmd THEN hist.tab_orig
                      ELSE ActiveBuffer(ViewState)
                  ELSE IF DispatchedCmds(t) # <<>> THEN <<>>
                  ELSE hist.tab_orig,
     tab_shown |-> IF TabPress(t) THEN
                       IF t.seen.last_cmd = t.cmd
                       THEN Append(hist.tab_shown, ActiveBuffer(t.e.v))
                       ELSE <<ActiveBuffer(t.e.v)>>
                   ELSE IF DispatchedCmds(t) # <<>> THEN <<>>
                   ELSE hist.tab_shown]

\* the state editor_run starts the main loop in
InitEditor(s) ==
    /\ scenario = s
    /\ kmap_init = ScenarioKmapInit(scenario)
    /\ func_map = RegisteredFuncs
    /\ macro_toggle_key = Key(<<"M","-","r">>)
    /\ LET V == EditorOpenBview(EmptyViews, NoView, MLE_BVIEW_TYPE_EDIT, TRUE).v
       IN  /\ bviews = V.bviews
           /\ all_bviews = V.all
           /\ top_bviews = V.top
           /\ active = V.active
           /\ active_edit = V.active_edit
           /\ active_edit_root = V.active_edit_root
           /\ prompt = V.prompt
    /\ loop_depth = 1
    /\ loops = <<NewLoop(NoView, MainCont)>>
    /\ tty = <<>>
    /\ macro_map = ScenarioMacros(scenario)
    /\ macro_record = NullMacro
    /\ is_recording_macro = FALSE
    /\ macro_apply = NullMacro
    /\ macro_apply_input_index = 0
    /\ nkeys = 0
    /\ rec_typed = <<>>
    /\ nbind = 0
    /\ async_procs = <<>>
    /\ clock = Timeval(0, 0)
    /\ hist = NoHist
    /\ shell = NoShell
    /\ obs = NoObs

Init ==
    /\ \E s \in Scenarios : InitEditor(s)
    /\ kmap_map = EditorInitKmaps

SetViews(V) ==
    /\ bviews' = V.bviews
    /\ all_bviews' = V.all
    /\ top_bviews' = V.top
    /\ active' = V.active
    /\ active_edit' = V.active_edit
    /\ active_edit_root' = V.active_edit_root
    /\ prompt' = V.prompt

PreObs(step) ==
    [NoObs EXCEPT !.step = step, !.pre = Top, !.pre_kmaps = bviews[active].kmaps,
                  !.pre_views = ViewState, !.pre_depth = loop_depth,
                  !.pre_frames = Len(loops), !.pre_record = macro_record,
                  !.pre_recording = is_recording_macro,
                  !.pre_procs = async_procs, !.tty_ready = (tty # <<>>),
                  !.now = clock]

\* the user types a key: one more event for termbox to deliver
Arrive(k) ==
    /\ nkeys < KeyBudget(scenario)
    /\ Len(tty) < MaxPending
    /\ tty' = Append(tty, k)
    /\ nkeys' = nkeys + 1
    /\ obs' = [NoObs EXCEPT !.step = "arrive"]
    /\ UNCHANGED <<kmapVars, viewVars, macroVars, loop_depth, loops, scenario, shell,
                   rec_typed, nbind, hist, asyncVars>>

\* the state after a turn whose outcome is t; when the turn called
\* editor_prompt and the prompt may open, opened is the prompt view and the
\* loop context editor_prompt makes
TurnTo(t, opened) ==
    /\ SetViews(IF t.push THEN opened.v ELSE t.e.v)
    /\ loops' = IF t.push
                THEN Append([loops EXCEPT ![Len(loops)] = t.e.lc], opened.loop)
                ELSE [loops EXCEPT ![Len(loops)] = t.e.lc]
    /\ loop_depth' = IF t.push THEN LoopEnter(loop_depth) ELSE loop_depth
    /\ tty' = t.e.tty
    /\ macro_map' = t.e.macro_map
    /\ macro_record' = t.e.macro_record
    /\ is_recording_macro' = t.e.is_recording_macro
    /\ macro_apply' = t.e.macro_apply
    /\ macro_apply_input_index' = t.e.macro_apply_input_index
    /\ rec_typed' = IF is_recording_macro
                    THEN rec_typed \o SubSeq(tty, 1, Len(tty) - Len(t.e.tty))
                    ELSE <<>>
    /\ obs' = [PreObs("turn") EXCEPT
                 !.outcome = t.outcome, !.input = t.seen.input,
                 !.is_user_input = t.seen.is_user_input, !.cmd = t.cmd,
                 !.seen = t.seen, !.consulted = t.res.consulted,
                 !.via = t.res.via, !.prompt_rc = t.prompt_rc,
                 !.cont = t.cont,
                 !.select = IF async_procs = <<>> THEN "none"
                            ELSE IF tty # <<>> THEN "tty" ELSE "error",
                 !.steps = LoopSteps(async_procs # <<>>, <<>>, TRUE,
                                     t.seen.input # macro_toggle_key)]
    /\ hist' = HistTurn(t, IF t.push THEN opened.v ELSE t.e.v,
                        IF t.push THEN opened.loop ELSE t.e.lc)
    /\ UNCHANGED <<kmapVars, nkeys, scenario, shell, nbind, asyncVars>>

\* the state after a turn whose outcome is t
TurnOutcome(t) ==
    TurnTo(t, EditorPromptOpen(t.e.v, "mle_prompt_input", t.cont))

\* one iteration of the innermost _editor_loop; when the iteration calls
\* editor_prompt and the prompt opens, the step ends where the nested
\* _editor_loop starts
Turn ==
    /\ ~Top.should_exit
    /\ InputReady(Ed)
    /\ TurnOutcome(EditorLoopTurn(Ed))

\* the innermost loop sees its exit flag: _editor_loop returns into
\* editor_prompt, which closes the prompt and returns to its caller, and
\* the caller finishes its iteration
LoopExit ==
    /\ Len(loops) > 1
    /\ Top.should_exit
    /\ LET fr == Top
           parent == loops[Len(loops) - 1]
           name == fr.prompt_answer
           start == fr.cont.kind = "toggle" /\ ~name.null
       IN  /\ SetViews(EditorPromptClose(ViewState, fr))
           /\ loop_depth' = LoopLeave(loop_depth)
           /\ loops' = Append(SubSeq(loops, 1, Len(loops) - 2),
                              IF fr.cont.kind = "cmd"
                              THEN AfterCmd(parent, fr.cont.ref) ELSE parent)
           /\ macro_record' = IF start THEN Kmacro(name.str, <<>>) ELSE macro_record
           /\ is_recording_macro' = (start \/ is_recording_macro)
           /\ rec_typed' = <<>>
           /\ hist' = IF start
                      THEN [hist EXCEPT
                              !.rec_cmds = <<>>,
                              !.rec_start = Snapshot(
                                  EditorPromptClose(ViewState, fr), parent)]
                      ELSE hist
           /\ obs' = [PreObs("return") EXCEPT
                        !.outcome = IF fr.cont.kind = "cmd" THEN "executed"
                                    ELSE IF start THEN "toggle_start"
                                    ELSE "toggle_noname",
                        !.cmd = fr.cont.ref, !.answer = name, !.cont = fr.cont,
                        !.prompt_rc = MLE_OK, !.invoker = fr.invoker,
                        !.ret_views = EditorPromptClose(ViewState, fr)]
    /\ UNCHANGED <<kmapVars, tty, macro_map, macro_apply, macro_apply_input_index,
                   nkeys, scenario, shell, nbind, asyncVars>>

Next ==
    \/ \E k \in ScenarioKeys(scenario) : Arrive(k)
    \/ Turn
    \/ LoopExit

Spec == Init /\ [][Next]_vars

\* a run in which the user records a macro named y and replays it
InitMacro ==
    /\ InitEditor("replay")
    /\ kmap_map = EditorInitKmaps

SpecMacro == InitMacro /\ [][Next]_vars

(***************************************************************************)
(* The async multiplexer.  An async proc is [id, pipe, is_done, timeout];  *)
(* pipe is what a read of its pipe would find: "idle" (nothing, the pipe   *)
(* is not readable), "data", "data_eof" (the last bytes, then end of       *)
(* file), "eof" or "err".                                                  *)
(***************************************************************************)
\* util_timeval_is_gt: a > b
UtilTimevalIsGt(a, b) ==
    IF a.tv_sec > b.tv_sec THEN TRUE
    ELSE IF a.tv_sec = b.tv_sec THEN a.tv_usec > b.tv_usec
    ELSE FALSE

\* the time of day t, half a second later (the clock stops at MaxClockSec)
HalfSecondLater(t) ==
    IF t.tv_sec >= MaxClockSec THEN t
    ELSE IF t.tv_usec = 0 THEN Timeval(t.tv_sec, 500000)
    ELSE Timeval(t.tv_sec + 1, 0)

\* the time of day t, after select has waited out its one second
OneSecondLater(t) == HalfSecondLater(HalfSecondLater(t))

\* FD_ISSET(aproc->pipefd, &readfds) after select
PipeReady(aproc) == aproc.pipe # "idle"

\* fread(&buf, 1, 1024, aproc->pipe) with ferror and feof after it
Fread(aproc) ==
    CASE aproc.pipe = "data" ->
           [nbytes |-> 1, ferror |-> FALSE, feof |-> FALSE, pipe |-> "idle"]
      [] aproc.pipe = "data_eof" ->
           [nbytes |-> 1, ferror |-> FALSE, feof |-> TRUE, pipe |-> "eof"]
      [] aproc.pipe = "eof" ->
           [nbytes |-> 0, ferror |-> FALSE, feof |-> TRUE, pipe |-> "eof"]
      [] aproc.pipe = "err" ->
           [nbytes |-> 0, ferror |-> TRUE, feof |-> FALSE, pipe |-> "err"]
      [] OTHER ->
           [nbytes |-> 0, ferror |-> FALSE, feof |-> FALSE, pipe |-> aproc.pipe]

\* one call of aproc->callback, as the log remembers it
Callback(aproc, nbytes, is_done) ==
    [id |-> aproc.id, nbytes |-> nbytes, is_done |-> is_done]

\* the third test of line 1835: the proc's timeout against the time of day
TimedOut(aproc, now) == UtilTimevalIsGt(aproc.timeout, now)

\* a variant of the loop body without the test of nbytes at line 1826: the
\* callback is invoked for every ready pipe, bytes or not
DrainProcReadAlwaysCalls(aproc, ready, rd, now) ==
    LET is_done == ready /\ (rd.ferror \/ rd.feof)
        destroy == is_done \/ aproc.is_done \/ TimedOut(aproc, now)
    IN  [callbacks |->
             (IF ready THEN <<Callback(aproc, rd.nbytes, 0)>> ELSE <<>>)
             \o (IF destroy THEN <<Callback(aproc, 0, 1)>> ELSE <<>>),
         destroy |-> destroy,
         aproc |-> [aproc EXCEPT !.pipe = IF ready THEN rd.pipe ELSE @]]

\* the body of the DL_FOREACH_SAFE loop (lines 1822-1838) for one proc that
\* read rd (when its pipe is ready): the callbacks made and whether the proc
\* is destroyed
DrainProcRead(aproc, ready, rd, now) ==
    LET is_done == ready /\ (rd.ferror \/ rd.feof)
        destroy == is_done \/ aproc.is_done \/ TimedOut(aproc, now)
    IN  [callbacks |->
             (IF ready /\ rd.nbytes > 0
              THEN <<Callback(aproc, rd.nbytes, 0)>> ELSE <<>>)
             \o (IF destroy THEN <<Callback(aproc, 0, 1)>> ELSE <<>>),
         destroy |-> destroy,
         aproc |-> [aproc EXCEPT !.pipe = IF ready THEN rd.pipe ELSE @]]

\* the body of the DL_FOREACH_SAFE loop for one proc
DrainProc(aproc, now) == DrainProcRead(aproc, PipeReady(aproc), Fread(aproc), now)

\* the result of the loop for the first proc, d, and for the procs after
\* it, rest
DrainProcsOn(d, rest) ==
    [procs |-> (IF d.destroy THEN <<>> ELSE <<d.aproc>>) \o rest.procs,
     callbacks |-> d.callbacks \o rest.callbacks,
     destroyed |-> (IF d.destroy THEN <<d.aproc.id>> ELSE <<>>) \o rest.destroyed]

\* what _editor_drain_async_procs returns and leaves behind
DrainResult(rv, select, d, now) ==
    [rv |-> rv, select |-> select, procs |-> d.procs, callbacks |-> d.callbacks,
     destroyed |-> d.destroyed, now |-> now]

RECURSIVE DrainProcs(_, _)
\* the DL_FOREACH_SAFE loop over the procs: [procs, callbacks, destroyed]
DrainProcs(procs, now) ==
    IF procs = <<>> THEN [procs |-> <<>>, callbacks |-> <<>>, destroyed |-> <<>>]
    ELSE DrainProcsOn(DrainProc(Head(procs), now), DrainProcs(Tail(procs), now))

\* a variant of the test of line 1816 that never gives the terminal priority
TtyIgnored(tty_ready) == FALSE

\* FD_ISSET(editor->ttyfd, &readfds), line 1816
TtyHasPriority(tty_ready) == tty_ready

\* _editor_drain_async_procs: [rv, select, procs, callbacks, destroyed, now];
\* rc_error says that select failed
EditorDrainAsyncProcs(procs, tty_ready, rc_error, time) ==
    LET none == \A i \in 1..Len(procs) : ~PipeReady(procs[i])
        idle == [procs |-> procs, callbacks |-> <<>>, destroyed |-> <<>>]
    IN  IF rc_error THEN DrainResult(0, "error", idle, time)
        ELSE IF ~tty_ready /\ none
            THEN DrainResult(1, "timeout", idle, OneSecondLater(time))
        ELSE IF TtyHasPriority(tty_ready) THEN DrainResult(0, "tty", idle, time)
        ELSE DrainResult(1, "pipes", DrainProcs(procs, time), time)

\* a run in which the user completes file names in the prompt for the name of
\* a macro
InitComplete ==
    /\ InitEditor("complete")
    /\ kmap_map = EditorInitKmaps

SpecComplete == InitComplete /\ [][Next]_vars

\* a run in which commands start async procs
InitAsync ==
    /\ InitEditor("async")
    /\ kmap_map = EditorInitKmaps

\* async_proc_new: a command starts a proc whose deadline is one second from
\* now and appends it to editor->async_procs
AsyncProcNew ==
    /\ Len(async_procs) < MaxProcs
    /\ LET id == CHOOSE n \in 1..MaxProcs :
                     \A i \in 1..Len(async_procs) : async_procs[i].id # n
       IN  async_procs' = Append(async_procs,
               [id |-> id, pipe |-> "idle", is_done |-> FALSE,
                timeout |-> Timeval(clock.tv_sec + 1, clock.tv_usec)])
    /\ obs' = [NoObs EXCEPT !.step = "proc_new"]
    /\ UNCHANGED <<kmapVars, viewVars, macroVars, loopVars, clock, scenario, shell,
                   rec_typed, nbind, hist>>

\* the child process of the i-th proc writes to its pipe, closes it, or the
\* pipe fails
PipeEvent(i, pipe) ==
    /\ \/ async_procs[i].pipe = "idle"
       \/ async_procs[i].pipe = "data" /\ pipe = "data_eof"
    /\ async_procs' = [async_procs EXCEPT ![i].pipe = pipe]
    /\ obs' = [NoObs EXCEPT !.step = "pipe_event"]
    /\ UNCHANGED <<kmapVars, viewVars, macroVars, loopVars, clock, scenario, shell,
                   rec_typed, nbind, hist>>

\* the owner of the i-th proc sets its is_done flag
MarkDone(i) ==
    /\ ~async_procs[i].is_done
    /\ async_procs' = [async_procs EXCEPT ![i].is_done = TRUE]
    /\ obs' = [NoObs EXCEPT !.step = "mark_done"]
    /\ UNCHANGED <<kmapVars, viewVars, macroVars, loopVars, clock, scenario, shell,
                   rec_typed, nbind, hist>>

\* half a second passes
Tick ==
    /\ HalfSecondLater(clock) # clock
    /\ clock' = HalfSecondLater(clock)
    /\ obs' = [NoObs EXCEPT !.step = "tick"]
    /\ UNCHANGED <<kmapVars, viewVars, macroVars, loopVars, async_procs, scenario, shell,
                   rec_typed, nbind, hist>>

\* the state after an iteration whose call of _editor_drain_async_procs
\* returned d with rv = 1: the loop continues without reading an input
DrainTurnTo(d) ==
    /\ d.rv = 1
    /\ async_procs' = d.procs
    /\ clock' = d.now
    /\ obs' = [PreObs("drain") EXCEPT
                 !.select = d.select, !.callbacks = d.callbacks,
                 !.destroyed = d.destroyed, !.now = d.now,
                 !.parity = 1 - obs.parity,
                 !.steps = LoopSteps(TRUE, [i \in 1..Len(d.callbacks) |-> "callback"],
                                     FALSE, FALSE)]
    /\ UNCHANGED <<kmapVars, viewVars, macroVars, loopVars, scenario, shell, rec_typed,
                   nbind, hist>>

\* one iteration of the innermost _editor_loop that ends at the continue of
\* line 692
DrainTurn ==
    /\ ~Top.should_exit
    /\ async_procs # <<>>
    /\ DrainTurnTo(EditorDrainAsyncProcs(async_procs, tty # <<>>, FALSE, clock))

NextAsync ==
    \/ \E k \in ScenarioKeys(scenario) : Arrive(k)
    \/ Turn
    \/ LoopExit
    \/ DrainTurn
    \/ AsyncProcNew
    \/ \E i \in 1..Len(async_procs) :
           \E pipe \in {"data", "data_eof", "eof", "err"} : PipeEvent(i, pipe)
    \/ \E i \in 1..Len(async_procs) : MarkDone(i)
    \/ Tick

SpecAsync == InitAsync /\ [][NextAsync]_vars

\* a run in which a command that prompts (cmd_search) is dispatched while
\* async procs are running
InitAsyncPrompt ==
    /\ InitEditor("async_prompt")
    /\ kmap_map = EditorInitKmaps

SpecAsyncPrompt == InitAsyncPrompt /\ [][NextAsync]_vars

\* a run in which the user types nothing: the terminal is never ready, and
\* every iteration of the loop that has procs is a call of the drain that
\* returns 1
NextDrain ==
    \/ DrainTurn
    \/ AsyncProcNew
    \/ \E i \in 1..Len(async_procs) :
           \E pipe \in {"data", "data_eof", "eof", "err"} : PipeEvent(i, pipe)
    \/ \E i \in 1..Len(async_procs) : MarkDone(i)
    \/ Tick

\* the loop is a running thread: while there are procs it takes its next
\* iteration
SpecDrain == InitAsync /\ [][NextDrain]_vars /\ WF_vars(DrainTurn)

(***************************************************************************)
(* The operations on views, as the commands call them: open, split, close, *)
(* set active, prompt and prompt menu.  A prompt is a nested _editor_loop; *)
(* the commands dispatched in it call the same operations, and it returns  *)
(* when its loop exits.                                                    *)
(***************************************************************************)
InitViews ==
    /\ InitEditor("views")
    /\ kmap_map = EditorInitKmaps

\* what called editor_prompt was editor_prompt_menu, with these locals
MenuCont(menu, orig) ==
    [kind |-> "prompt_menu", ref |-> NULL, menu |-> menu, orig |-> orig]

\* the views change to V; rv is what the operation returned, bview the view
\* it was called on and pre the views before the call (kept for a close only)
ViewStep(step, V, rv, bview, pre) ==
    /\ SetViews(V)
    /\ obs' = [NoObs EXCEPT !.step = step, !.pre_views = pre, !.rv = rv,
                            !.bview = bview]
    /\ UNCHANGED <<kmapVars, macroVars, tty, nkeys, asyncVars, scenario, shell,
                   rec_typed, nbind, hist>>

\* the views that are allocated, and one that is not
ViewArgs == 1..(MaxViews + 1)

\* editor_open_bview(editor, NULL, MLE_BVIEW_TYPE_EDIT, ..., make_active, ...)
ViewOpen(make_active) ==
    /\ Len(all_bviews) < MaxViews
    /\ LET o == EditorOpenBview(ViewState, NoView, MLE_BVIEW_TYPE_EDIT, make_active)
       IN  ViewStep("open", o.v, MLE_OK, NoView, EmptyViews)
    /\ UNCHANGED <<loop_depth, loops>>

\* bview_split: the new view is opened as the split child of parent and made
\* active, and its split_parent is set
BviewSplit(V, parent) ==
    LET o == EditorOpenBview(V, parent, MLE_BVIEW_TYPE_EDIT, TRUE)
    IN  [o.v EXCEPT !.bviews[o.bview].split_parent = parent]

ViewSplit(parent) ==
    /\ Len(all_bviews) < MaxViews
    /\ EditorBviewExists(ViewState, parent)
    /\ MLE_BVIEW_IS_EDIT(ViewState, parent)
    /\ bviews[parent].split_child = NoView
    /\ ViewStep("split", BviewSplit(ViewState, parent), MLE_OK, NoView, EmptyViews)
    /\ UNCHANGED <<loop_depth, loops>>

\* editor_close_bview(editor, bview, NULL)
ViewCloseTo(r, bview) ==
    /\ SetViews(r.v)
    /\ obs' = [NoObs EXCEPT !.step = "close", !.pre_views = ViewState,
                            !.rv = r.rv, !.bview = bview,
                            !.num_closed = r.num_closed, !.order = r.order]
    /\ UNCHANGED <<kmapVars, macroVars, tty, nkeys, asyncVars, scenario, shell,
                   rec_typed, nbind, hist>>

ViewClose(bview) ==
    /\ ViewCloseTo(EditorCloseBview(ViewState, bview), bview)
    /\ UNCHANGED <<loop_depth, loops>>

\* editor_set_active(editor, bview)
ViewSetActiveTo(r, bview) == ViewStep("set_active", r.v, r.rv, bview, ViewState)

ViewSetActive(bview) ==
    /\ ViewSetActiveTo(EditorSetActive(ViewState, bview), bview)
    /\ UNCHANGED <<loop_depth, loops>>

\* editor_prompt up to its call of _editor_loop, or all of it when another
\* prompt is open
ViewPromptTo(o) ==
    IF EditorPromptRejects(ViewState)
    THEN /\ ViewStep("prompt", ViewState, MLE_ERR, NoView, EmptyViews)
         /\ UNCHANGED <<loop_depth, loops>>
    ELSE /\ Len(all_bviews) < MaxViews
         /\ ViewStep("prompt", o.v, MLE_OK, NoView, EmptyViews)
         /\ loop_depth' = LoopEnter(loop_depth)
         /\ loops' = Append(loops, o.loop)

ViewPrompt ==
    /\ ~Top.should_exit
    /\ ViewPromptTo(EditorPromptOpen(ViewState, "mle_prompt_input", MainCont))

\* editor_prompt_menu after its menu view m was opened, up to the call of
\* _editor_loop in editor_prompt, or all of it when another prompt is open
ViewPromptMenuTo(m, orig) ==
    IF EditorPromptRejects(m.v)
    THEN /\ ViewStep("prompt_menu",
                     EditorSetActive(EditorCloseBview(m.v, m.bview).v, orig).v,
                     MLE_OK, NoView, EmptyViews)
         /\ UNCHANGED <<loop_depth, loops>>
    ELSE /\ ViewStep("prompt_menu",
                     EditorPromptOpen(m.v, "mle_prompt_menu",
                                      MenuCont(m.bview, orig)).v,
                     MLE_OK, NoView, EmptyViews)
         /\ loop_depth' = LoopEnter(loop_depth)
         /\ loops' = Append(loops, EditorPromptOpen(m.v, "mle_prompt_menu",
                                                    MenuCont(m.bview, orig)).loop)

ViewPromptMenu ==
    /\ Len(all_bviews) + 1 < MaxViews
    /\ ViewPromptMenuTo(
           EditorOpenBview(ViewState, NoView, MLE_BVIEW_TYPE_EDIT, TRUE), active)

\* editor_prompt_menu after editor_prompt has returned (lines 268-269)
EditorPromptMenuClose(V, cont) ==
    EditorSetActive(EditorCloseBview(V, cont.menu).v, cont.orig).v

\* the loop of the innermost prompt exits: editor_prompt closes the prompt and
\* returns (V is the views then), into editor_prompt_menu when that called it
ViewPromptReturnTo(V, fr) ==
    /\ SetViews(IF fr.cont.kind = "prompt_menu"
                THEN EditorPromptMenuClose(V, fr.cont) ELSE V)
    /\ obs' = [NoObs EXCEPT !.step = "return", !.rv = MLE_OK,
                            !.pre_depth = loop_depth,
                            !.invoker = fr.invoker, !.ret_views = V]
    /\ UNCHANGED <<kmapVars, macroVars, tty, nkeys, asyncVars, scenario, shell,
                   rec_typed, nbind, hist>>
    /\ loop_depth' = LoopLeave(loop_depth)
    /\ loops' = SubSeq(loops, 1, Len(loops) - 1)

ViewPromptReturn ==
    /\ Len(loops) > 1
    /\ ViewPromptReturnTo(EditorPromptClose(ViewState, Top), Top)

NextViews ==
    \/ \E make_active \in BOOLEAN : ViewOpen(make_active)
    \/ \E parent \in ViewArgs : ViewSplit(parent)
    \/ \E bview \in ViewArgs : ViewClose(bview)
    \/ \E bview \in ViewArgs : ViewSetActive(bview)
    \/ ViewPrompt
    \/ ViewPromptMenu
    \/ ViewPromptReturn

SpecViews == InitViews /\ [][NextViews]_vars

(***************************************************************************)
(* Building a keymap from the command line: -K k,0 followed by -k options. *)
(***************************************************************************)
\* the key patterns of the -k options the model tries
TriePatterns ==
    { <<"a">>, <<"a", " ", "b">>, <<"a", " ">>, <<"a", " ", "b", " ">>,
      <<"#", "#", " ", "a">>, <<"b", " ", " ", "a">> }

\* the command names of the -k options the model tries
TrieCmds == {"cmd_move_down", "cmd_search"}

\* the state after -K k,0: the built-in kmaps and the empty kmap "k"
InitTrie ==
    /\ InitEditor("trie")
    /\ kmap_map = [n \in DOMAIN EditorInitKmaps \cup {"k"} |->
                      IF n = "k" THEN EditorInitKmap("k", NULL, FALSE, <<>>)
                      ELSE EditorInitKmaps[n]]

\* -k cmd,key_patt: _editor_init_kmap_add_binding_by_str on the current kmap
AddBinding(cmd, key_patt) ==
    /\ nbind < MaxBindings
    /\ nbind' = nbind + 1
    /\ kmap_map' = [kmap_map EXCEPT
                      !["k"] = EditorInitKmapAddBinding(@, cmd, key_patt, NULL)]
    /\ obs' = [NoObs EXCEPT
                 !.step = "add_binding", !.cmd = cmd, !.key_patt = key_patt,
                 !.pre_trie = kmap_map["k"].bindings,
                 !.rv = EditorInitKmapAddBindingToTrie(
                            kmap_map["k"].bindings, <<>>, cmd, key_patt, NULL).rv]
    /\ UNCHANGED <<func_map, kmap_init, macro_toggle_key, viewVars, macroVars,
                   loopVars, scenario, shell, rec_typed, hist, asyncVars>>

\* the allocator hands the memory of a freed node to someone else: what the
\* trie reads there is no longer what the node held
Reuse(p) ==
    /\ kmap_map["k"].bindings[p].freed
    /\ kmap_map["k"].bindings[p].funcref # GARBAGE
    /\ kmap_map' = [kmap_map EXCEPT !["k"].bindings[p].funcref = GARBAGE]
    /\ obs' = [NoObs EXCEPT !.step = "reuse"]
    /\ UNCHANGED <<func_map, kmap_init, macro_toggle_key, viewVars, macroVars,
                   loopVars, scenario, shell, rec_typed, nbind, hist, asyncVars>>

NextTrie ==
    \/ \E cmd \in TrieCmds, key_patt \in TriePatterns : AddBinding(cmd, key_patt)
    \/ \E p \in DOMAIN kmap_map["k"].bindings : Reuse(p)

SpecTrie == InitTrie /\ [][NextTrie]_vars

(***************************************************************************)
(* Properties.                                                             *)
(***************************************************************************)
PromptViews == {b \in DOMAIN bviews : bviews[b].type = MLE_BVIEW_TYPE_PROMPT}

\* the last turn called editor_prompt: from the macro toggle while not
\* recording, or from a command that prompts
CalledEditorPrompt ==
    /\ obs.step = "turn"
    /\ \/ obs.input = macro_toggle_key /\ ~obs.pre_recording
       \/ obs.cmd \in PromptingCmds /\ obs.outcome \in {"executed", "prompting"}

\* C1: at most one prompt view exists at any time, and a call of
\* editor_prompt made while a prompt is open returns MLE_ERR with a null
\* answer (so the toggle starts no recording), opens no view, runs no nested loop and
\* leaves editor->prompt and editor->active as they were.
C1_NoNestedPrompt ==
    /\ Cardinality(PromptViews) <= 1
    /\ (prompt # NoView => PromptViews = {prompt})
    /\ (CalledEditorPrompt /\ obs.pre_views.prompt # NoView) =>
          /\ obs.prompt_rc = MLE_ERR
          /\ is_recording_macro = obs.pre_recording
          /\ macro_record.null = obs.pre_record.null
          /\ bviews = obs.pre_views.bviews
          /\ all_bviews = obs.pre_views.all
          /\ Len(loops) = obs.pre_frames
          /\ loop_depth = obs.pre_depth
          /\ prompt = obs.pre_views.prompt
          /\ active = obs.pre_views.active

\* the macro toggle key is pressed inside a prompt (here the prompt that asks
\* for a macro name or a search), and the call is turned down
C1_Witness ==
    /\ CalledEditorPrompt
    /\ obs.pre_views.prompt # NoView
    /\ obs.input = macro_toggle_key
    /\ obs.prompt_rc = MLE_ERR

\* the last step was a turn that went through the resolver
Dispatched ==
    /\ obs.step = "turn"
    /\ obs.outcome \in {"executed", "prompting", "no_func", "need_more", "unbound"}

\* the input matches no child of the root of kmap k: no key, no wildcard
\* edge, and for a digit no numeric edge
RootMiss(k, input) ==
    /\ <<input>> \notin DOMAIN kmap_map[k].bindings
    /\ <<MLE_KINPUT_WILDCARD>> \notin DOMAIN kmap_map[k].bindings
    /\ ~(IsDigit(input) /\ <<MLE_KINPUT_NUMERIC>> \in DOMAIN kmap_map[k].bindings)

RECURSIVE MissPolicy(_, _, _)
\* what the order default -> fallthru -> unbound gives for an input, from
\* the i-th kmap of a stack downward: "match" when a root has a child for it
MissPolicy(stack, i, input) ==
    IF i = 0 THEN "unbound"
    ELSE IF ~RootMiss(stack[i], input) THEN "match"
    ELSE IF kmap_map[stack[i]].default_funcref # NULL
        THEN kmap_map[stack[i]].default_funcref
    ELSE IF kmap_map[stack[i]].allow_fallthru
        THEN MissPolicy(stack, i - 1, input)
    ELSE "unbound"

\* C2: on a top-level miss the resolver takes the keymap's default command
\* if it has one, else goes to the keymap beneath only if allow_fallthru is
\* set, else the input is unbound; it never goes below a keymap that does
\* not allow fallthru.
C2_TopLevelMissOrder ==
    (Dispatched /\ obs.pre.binding_node = NullNode) =>
        /\ \A i \in 1..(Len(obs.consulted) - 1) :
              /\ kmap_map[obs.consulted[i]].allow_fallthru
              /\ kmap_map[obs.consulted[i]].default_funcref = NULL
        /\ LET policy == MissPolicy(obs.pre_kmaps, Len(obs.pre_kmaps), obs.input)
           IN  /\ policy = "unbound" => obs.outcome = "unbound"
               /\ policy \notin {"unbound", "match"} =>
                     obs.cmd = policy /\ obs.via = "default"

\* C3: with keymap A stacked on keymap B, A allowing fallthru, and an input
\* that is unbound in A and bound to command c in B, resolving the input
\* from the top of the stack gives c.
C3_FallthruFindsLower ==
    (Dispatched /\ obs.pre.binding_node = NullNode /\ Len(obs.pre_kmaps) >= 2) =>
        LET A == kmap_map[obs.pre_kmaps[Len(obs.pre_kmaps)]]
            B == kmap_map[obs.pre_kmaps[Len(obs.pre_kmaps) - 1]]
        IN  ( /\ A.allow_fallthru
              /\ A.default_funcref = NULL
              /\ RootMiss(A.name, obs.input)
              /\ <<obs.input>> \in DOMAIN B.bindings
              /\ B.bindings[<<obs.input>>].funcref # NULL )
            => obs.cmd = B.bindings[<<obs.input>>].funcref

RECURSIVE DecimalValue(_)
\* the decimal value of a sequence of digit keystrokes
DecimalValue(digits) ==
    IF digits = <<>> THEN 0
    ELSE 10 * DecimalValue(SubSeq(digits, 1, Len(digits) - 1))
         + (digits[Len(digits)].ch - 48)

\* the chord M-y d1..dk u (or d), with 1 <= k <= the maximum of digits
IsNumericChord(chord) ==
    /\ Len(chord) >= 3
    /\ Len(chord) <= 2 + MLE_LOOP_CTX_MAX_NUMERIC_LEN
    /\ chord[1] = Key(<<"M","-","y">>)
    /\ chord[Len(chord)] \in {Key(<<"u">>), Key(<<"d">>)}
    /\ \A i \in 2..(Len(chord) - 1) : IsDigit(chord[i])

\* C4: a chord M-y d1..dk u started in any state the loop can be in
\* dispatches cmd_move_relative with the numeric parameters [value of
\* d1..dk] and the static parameter of the binding.
C4_NumericParamIsDecimalValue ==
    (obs.step = "turn" /\ obs.outcome = "executed"
        /\ IsNumericChord(obs.seen.chord)) =>
        /\ obs.cmd = "cmd_move_relative"
        /\ obs.seen.numeric_params =
              <<DecimalValue(SubSeq(obs.seen.chord, 2, Len(obs.seen.chord) - 1))>>
        /\ obs.seen.static_param =
              (IF obs.input = Key(<<"u">>) THEN "up" ELSE "down")

IsPrefix(a, b) == Len(a) <= Len(b) /\ SubSeq(b, 1, Len(a)) = a

\* C5: when a command has executed, binding_node and the numeric and
\* wildcard parameters of the loop are cleared; when the outcome is "need
\* more input", binding_node is set and the parameters captured before are
\* still there.
C5_ParamsClearedOnExecute ==
    /\ (obs.step \in {"turn", "return"} /\ obs.outcome = "executed") =>
          /\ Top.binding_node = NullNode
          /\ Top.numeric_params = <<>>
          /\ Top.wildcard_params = <<>>
    /\ (obs.step = "turn" /\ obs.outcome = "need_more") =>
          /\ Top.binding_node # NullNode
          /\ Top.need_more_input
          /\ IsPrefix(obs.pre.numeric_params, Top.numeric_params)
          /\ IsPrefix(obs.pre.wildcard_params, Top.wildcard_params)

\* the last key of a numeric chord ran cmd_move_relative with a numeric
\* parameter, and the parameter is gone afterwards
C5_Witness ==
    /\ obs.step = "turn"
    /\ obs.outcome = "executed"
    /\ obs.cmd = "cmd_move_relative"
    /\ obs.seen.numeric_params # <<>>
    /\ obs.pre.binding_node # NullNode
    /\ Top.numeric_params = <<>>

\* the input of the last turn found a parameter buffer full in the middle
\* of a chord
Overflowed ==
    /\ Dispatched
    /\ obs.pre.binding_node # NullNode
    /\ \/ /\ IsDigit(obs.input)
          /\ obs.pre.numeric_node # NullNode
          /\ Len(obs.pre.numeric) = MLE_LOOP_CTX_MAX_NUMERIC_LEN
       \/ /\ ~IsDigit(obs.input)
          /\ Len(obs.pre.numeric) > 0
          /\ Len(obs.pre.numeric_params) = MLE_LOOP_CTX_MAX_NUMERIC_PARAMS
       \/ /\ obs.pre.numeric = <<>>
          /\ HashFindChild(obs.pre.binding_node, obs.input) = NullNode
          /\ HashFindChild(obs.pre.binding_node, MLE_KINPUT_WILDCARD) # NullNode
          /\ Len(obs.pre.wildcard_params) = MLE_LOOP_CTX_MAX_WILDCARD_PARAMS

\* C6: an input that overflows the digit buffer, the numeric parameters or
\* the wildcard parameters in the middle of a chord is unbound: no command
\* executes and binding_node is cleared.
C6_OverflowIsUnbound ==
    Overflowed => (obs.outcome = "unbound" /\ Top.binding_node = NullNode)

\* C7: while digits accumulate on a numeric edge, the digit that fills the
\* buffer to MLE_LOOP_CTX_MAX_NUMERIC_LEN is taken (need more input) and
\* the digit after it is not.
C7_LastDigitAcceptedNextRejected ==
    (Dispatched /\ IsDigit(obs.input) /\ obs.pre.numeric_node # NullNode) =>
        /\ Len(obs.pre.numeric) = MLE_LOOP_CTX_MAX_NUMERIC_LEN - 1 =>
              /\ obs.outcome = "need_more"
              /\ Top.numeric = Append(obs.pre.numeric, obs.input.ch)
        /\ Len(obs.pre.numeric) = MLE_LOOP_CTX_MAX_NUMERIC_LEN =>
              /\ obs.outcome # "need_more"
              /\ Top.numeric = obs.pre.numeric

\* a digit arrives when the buffer is full, after the digit that filled it
C7_Witness ==
    /\ Dispatched
    /\ IsDigit(obs.input)
    /\ obs.pre.numeric_node # NullNode
    /\ Len(obs.pre.numeric) = MLE_LOOP_CTX_MAX_NUMERIC_LEN
    /\ obs.pre.need_more_input

\* C8: every node of every trie, the roots aside, has a child or a command
\* (or both), whatever insertions were made, failed ones included.
C8_NoNodeWithoutChildOrCommand ==
    \A k \in DOMAIN kmap_map :
        \A p \in DOMAIN kmap_map[k].bindings :
            p # <<>> =>
                \/ Children(kmap_map[k].bindings, p) # {}
                \/ kmap_map[k].bindings[p].funcref # NULL

\* C9: an input that comes from a macro being replayed is not appended to
\* the macro being recorded.
C9_ReplayNotRecorded ==
    (obs.step = "turn" /\ ~obs.is_user_input /\ obs.pre_recording
        /\ is_recording_macro) =>
        macro_record.inputs = obs.pre_record.inputs

\* C10: the macro registered when the toggle key stops a recording does not
\* hold the toggle key, and it is exactly the keys the user typed between
\* the name and the stopping toggle key.
C10_MacroIsTheTypedKeys ==
    (obs.step = "turn" /\ obs.outcome = "toggle_stop") =>
        LET m == macro_map[Len(macro_map)]
        IN  /\ \A i \in 1..Len(m.inputs) : m.inputs[i] # macro_toggle_key
            /\ obs.is_user_input =>
                  rec_typed = Append(m.inputs, macro_toggle_key)

\* the replay that editor->macro_apply points at has served its last input
ReplayDone ==
    /\ ~hist.replay.null
    /\ macro_apply = hist.replay
    /\ macro_apply_input_index = Len(hist.replay.inputs)

\* the recordings that registered the macro being replayed and that started in
\* the state the replay started in
SameStartRecordings ==
    {i \in 1..Len(hist.recorded) :
        /\ hist.recorded[i].macro = hist.replay
        /\ hist.recorded[i].start = hist.replay_start}

\* C11: when the replay of a recorded macro has served all its inputs, and the
\* replay started in the editor state the recording started in, the commands
\* dispatched for the replayed inputs are, in order, the commands dispatched
\* while the macro was being recorded
C11_ReplayDispatchesRecordedCommands ==
    ReplayDone =>
        \A i \in SameStartRecordings : hist.replay_cmds = hist.recorded[i].cmds

C11_Witness ==
    /\ ReplayDone
    /\ \E i \in SameStartRecordings :
           /\ hist.recorded[i].cmds # <<>>
           /\ hist.replay_cmds = hist.recorded[i].cmds

\* the place of a step in the body of the while loop of _editor_loop
StepRank(s) ==
    CASE s = "draw" -> 1
      [] s = "drain" -> 2
      [] s = "callback" -> 3
      [] s = "input" -> 4
      [] s = "toggle" -> 5
      [] s = "dispatch" -> 6
      [] OTHER -> 0

\* the last step was an iteration of the loop
LoopTurn == obs.step \in {"turn", "drain"}

C13_TtyPriority ==
    (LoopTurn /\ obs.pre_procs # <<>> /\ obs.tty_ready) =>
        /\ obs.step = "turn"
        /\ obs.select = "tty"
        /\ obs.callbacks = <<>>
        /\ obs.destroyed = <<>>
        /\ async_procs = obs.pre_procs
        /\ \E i \in 1..Len(obs.steps) : obs.steps[i] = "input"

C13_Witness ==
    /\ obs.step = "turn"
    /\ obs.tty_ready
    /\ \E i \in 1..Len(obs.pre_procs) :
           /\ PipeReady(obs.pre_procs[i])
           /\ DrainProc(obs.pre_procs[i], obs.now).destroy
    /\ obs.callbacks = <<>>
    /\ async_procs = obs.pre_procs

\* the proc with this id is in editor->async_procs
ProcListed(id) == \E i \in 1..Len(async_procs) : async_procs[i].id = id

\* the proc with this id is in editor->async_procs and its deadline has passed
ProcExpired(id) ==
    \E i \in 1..Len(async_procs) :
        /\ async_procs[i].id = id
        /\ UtilTimevalIsGt(clock, async_procs[i].timeout)

\* C14: a proc whose deadline has passed is eventually removed from the list
\* of procs, whatever its pipe and the terminal do.
C14_ExpiredProcIsTerminated ==
    \A id \in 1..MaxProcs : ProcExpired(id) ~> ~ProcListed(id)

\* the callbacks of the last drain made for the proc with this id, with this
\* done argument
CallbacksOf(id, is_done) ==
    {i \in 1..Len(obs.callbacks) :
        obs.callbacks[i].id = id /\ obs.callbacks[i].is_done = is_done}

\* C15, as stated: in one iteration the callback of a proc is invoked at most
\* once.
C15_AtMostOneCallback ==
    obs.step = "drain" =>
        \A id \in 1..MaxProcs :
            Cardinality(CallbacksOf(id, 0) \cup CallbacksOf(id, 1)) <= 1

\* C15: in one iteration a proc gets at most one callback with done=0, and
\* only when its pipe was ready and bytes were read; it gets at most one
\* callback with done=1, after the done=0 one, exactly when it is destroyed in
\* that iteration.
C15_AtMostOneByteCallback ==
    obs.step = "drain" =>
        \A id \in 1..MaxProcs :
            /\ Cardinality(CallbacksOf(id, 0)) <= 1
            /\ Cardinality(CallbacksOf(id, 1)) <= 1
            /\ \A i \in CallbacksOf(id, 0) :
                   /\ obs.callbacks[i].nbytes > 0
                   /\ \E k \in 1..Len(obs.pre_procs) :
                          /\ obs.pre_procs[k].id = id
                          /\ PipeReady(obs.pre_procs[k])
                   /\ \A j \in CallbacksOf(id, 1) : i < j
            /\ (CallbacksOf(id, 1) # {})
                   <=> (\E k \in 1..Len(obs.destroyed) : obs.destroyed[k] = id)

C15_Witness ==
    /\ obs.step = "drain"
    /\ \E id \in 1..MaxProcs :
           /\ CallbacksOf(id, 0) # {}
           /\ CallbacksOf(id, 1) # {}
    /\ Len(obs.pre_procs) = 2

\* C16: editor->active is a view of editor->all_bviews.
C16_ActiveIsListed == EditorBviewExists(ViewState, active)

\* the EDIT views of editor->all_bviews
EditViews(V) == {b \in DOMAIN V.bviews : EditorBviewExists(V, b) /\ MLE_BVIEW_IS_EDIT(V, b)}

\* C17: after an editor_close_bview that returned MLE_OK there is an EDIT view
\* in editor->all_bviews; when the call closed the only EDIT view, the EDIT
\* view there is now was allocated by the call and is blank.
C17_CloseLeavesAnEditView ==
    (obs.step = "close" /\ obs.rv = MLE_OK) =>
        /\ EditViews(ViewState) # {}
        /\ EditViews(obs.pre_views) = {obs.bview} =>
               /\ Cardinality(EditViews(ViewState)) = 1
               /\ \A b \in EditViews(ViewState) :
                      /\ b \notin DOMAIN obs.pre_views.bviews
                      /\ bviews[b] = BviewNew(MLE_BVIEW_TYPE_EDIT)

C17_Witness ==
    /\ obs.step = "close"
    /\ obs.rv = MLE_OK
    /\ EditViews(obs.pre_views) = {obs.bview}
    /\ EditViews(ViewState) # {}
    /\ obs.bview \notin DOMAIN bviews

\* C18: no peek of any loop has changed binding_node, need_more_input, the
\* numeric accumulator, the numeric and wildcard parameters or the static
\* parameter of the context it was called with.
C18_PeekKeepsLoopContext ==
    \A i \in 1..Len(loops) : ~loops[i].peek_changed

\* a turn that peeked: it left a leftover, behind an input it ingested
C18_Witness ==
    /\ obs.step = "turn"
    /\ obs.cmd = "cmd_insert_data"
    /\ Top.has_pastebuf_leftover
    /\ ~Top.peek_changed

\* the terminal events a loop has still to see, in their order: its leftover,
\* then what termbox holds
Pending(lc, events) ==
    (IF lc.has_pastebuf_leftover THEN <<lc.pastebuf_leftover>> ELSE <<>>) \o events

\* C19: a turn of a loop with a pending leftover takes the leftover as its
\* input, as a user input; a turn that takes a user input reads, in order, the
\* pending leftover (if any) and then terminal events: its input, the events
\* it ingested and the one leftover it may leave are the head of what was
\* pending, and the rest is what is still in the terminal; and no loop
\* returns with a leftover pending.
C19_LeftoverIsNextInput ==
    [][/\ (obs'.step = "turn" /\ Top.has_pastebuf_leftover) =>
              /\ obs'.is_user_input
              /\ obs'.input = Top.pastebuf_leftover
       /\ (obs'.step = "turn" /\ obs'.is_user_input) =>
              LET lc == loops'[Len(loops)]
              IN  <<obs'.input>> \o lc.pastebuf \o Pending(lc, tty')
                      = Pending(Top, tty)
       /\ (obs'.step = "return") => ~Top.has_pastebuf_leftover]_vars

C19_Witness ==
    /\ obs.step = "turn"
    /\ obs.pre.has_pastebuf_leftover
    /\ obs.input = obs.pre.pastebuf_leftover
    /\ obs.is_user_input
    /\ tty # <<>>

\* the candidates for the input the streak of tab presses started with: the
\* files whose name starts with it, in sorted order
Candidates == SelectSeq(Files, LAMBDA f : IsPrefix(hist.tab_orig, f))

\* the streak started with an input that fits the completion term and has
\* candidates
Completing ==
    /\ hist.tab_shown # <<>>
    /\ Len(hist.tab_orig) < MLE_LOOP_CTX_MAX_COMPLETE_TERM_SIZE
    /\ Candidates # <<>>

\* C20, as stated: after as many tab presses as there are candidates the
\* prompt buffer is the input the streak started with.
C20_TabsRestoreInput ==
    (Completing /\ Len(hist.tab_shown) = Len(Candidates)) =>
        hist.tab_shown[Len(hist.tab_shown)] = hist.tab_orig

\* C20: with N candidates, the k-th tab press of a streak shows candidate
\* (k - 1) mod N of the sorted candidates, so the press N presses after a
\* press shows what that press showed.
C20_TabsCycleThroughCandidates ==
    Completing =>
        LET shown == hist.tab_shown
            N == Len(Candidates)
        IN  /\ \A k \in 1..Len(shown) : shown[k] = Candidates[((k - 1) % N) + 1]
            /\ \A k \in 1..Len(shown) :
                   k + N <= Len(shown) => shown[k + N] = shown[k]

C20_Witness ==
    /\ Completing
    /\ Len(Candidates) >= 2
    /\ Len(hist.tab_shown) = Len(Candidates) + 1
    /\ hist.tab_shown[Len(Candidates)] # hist.tab_orig
    /\ hist.tab_shown[Len(hist.tab_shown)] = hist.tab_shown[1]

\* the commands that have been dispatched (cmd_fn was called at line 713) and
\* have not returned: each is inside editor_prompt, in the nested _editor_loop
CommandsInProgress == {i \in 1..Len(loops) : loops[i].cont.kind = "cmd"}

\* C21: no callback of an async proc runs between the start and the end of a
\* dispatched command, the commands that open a prompt included: an iteration
\* that drains and makes callbacks is never an iteration of a loop that a
\* command still in progress has started.
C21_NoCallbackInsideCommand ==
    (obs.step = "drain" /\ obs.callbacks # <<>>) => CommandsInProgress = {}

\* the views of type PROMPT that V lists
PromptViewsOf(V) ==
    {b \in DOMAIN V.bviews : V.bviews[b].type = MLE_BVIEW_TYPE_PROMPT}

\* C22: when editor_prompt returns MLE_OK the prompt view is closed,
\* editor->prompt is null and editor->active is the view that was active when
\* editor_prompt was called, whatever ran inside the prompt.
C22_PromptRestoresInvoker ==
    obs.step = "return" =>
        /\ obs.ret_views.prompt = NoView
        /\ PromptViewsOf(obs.ret_views) = {}
        /\ obs.ret_views.active = obs.invoker

\* the step is a turn of a prompt's loop that ran submit or cancel
SubmitOrCancelStep ==
    /\ prompt # NoView
    /\ Len(loops) > 1
    /\ obs'.step = "turn"
    /\ obs'.outcome = "executed"
    /\ obs'.cmd \in {"_editor_prompt_input_submit", "_editor_prompt_cancel"}

\* C23: inside a prompt, submit sets the answer of the prompt's loop to the
\* contents of the prompt buffer and cancel sets it to null; each sets the
\* exit flag of that loop, and the frames of the enclosing loops stay as they
\* were; once the flag is set the loop takes no further turn: the next thing
\* it does is return.
C23_SubmitAndCancelExitThePrompt ==
    [][/\ SubmitOrCancelStep =>
            /\ Len(loops') = Len(loops)
            /\ loops'[Len(loops)].should_exit
            /\ loops'[Len(loops)].prompt_answer =
                   IF obs'.cmd = "_editor_prompt_input_submit"
                   THEN Answer(ActiveBuffer(ViewState)) ELSE NullAnswer
            /\ \A i \in 1..(Len(loops) - 1) : loops'[i] = loops[i]
       /\ Top.should_exit =>
            \/ obs'.step = "arrive"
            \/ obs'.step = "return" /\ Len(loops') = Len(loops) - 1]_vars

C23_Witness ==
    /\ obs.step = "turn"
    /\ obs.outcome = "executed"
    /\ obs.cmd = "_editor_prompt_input_submit"
    /\ Len(loops) > 1
    /\ Top.should_exit
    /\ Top.prompt_answer.str # <<>>

\* the node a chord in progress looks its next input up in: the numeric node
\* once digits have been read, else the node the chord has reached
ChordNode(lc) == IF lc.numeric # <<>> THEN lc.numeric_node ELSE lc.binding_node

\* the last turn resolved an input in the middle of a chord, at a node that
\* is not a root, and the node has nothing for it: no child for the key, no
\* wildcard child, and the input is no digit for a numeric child
MidChordMiss ==
    /\ Dispatched
    /\ obs.pre.binding_node # NullNode
    /\ obs.pre.binding_node.path # <<>>
    /\ HashFindChild(ChordNode(obs.pre), obs.input) = NullNode
    /\ HashFindChild(ChordNode(obs.pre), MLE_KINPUT_WILDCARD) = NullNode
    /\ ~(/\ IsDigit(obs.input)
          /\ \/ obs.pre.numeric_node # NullNode
             \/ HashFindChild(obs.pre.binding_node, MLE_KINPUT_NUMERIC) # NullNode)

\* C24: a miss in the middle of a chord is unbound at once: only the keymap
\* on top of the stack is looked at, neither its default command nor the
\* keymap beneath is taken, no command runs, and binding_node is null after
\* the turn.
C24_MidChordMissIsUnbound ==
    MidChordMiss =>
        /\ obs.outcome = "unbound"
        /\ obs.cmd = NULL
        /\ obs.via = "none"
        /\ Len(obs.consulted) = 1
        /\ Top.binding_node = NullNode
        /\ ~Top.need_more_input
        /\ Top.last_cmd = obs.pre.last_cmd

\* the chord was missed in a keymap that has a default command
C24_Witness ==
    /\ MidChordMiss
    /\ obs.outcome = "unbound"
    /\ kmap_map[obs.pre_kmaps[Len(obs.pre_kmaps)]].default_funcref # NULL

\* the two-key bindings K1 K2 of keymap k: paths of two keys, neither a
\* numeric nor a wildcard token, that end in a command
TwoKeyBindings(k) ==
    {path \in DOMAIN kmap_map[k].bindings :
        /\ Len(path) = 2
        /\ path[1] \notin {MLE_KINPUT_NUMERIC, MLE_KINPUT_WILDCARD}
        /\ path[2] \notin {MLE_KINPUT_NUMERIC, MLE_KINPUT_WILDCARD}
        /\ kmap_map[k].bindings[path].funcref # NULL
        /\ kmap_map[k].bindings[<<path[1]>>].funcref = NULL}

\* the input is a digit that a numeric child of the node would take
TakenAsDigit(node, input) ==
    IsDigit(input) /\ HashFindChild(node, MLE_KINPUT_NUMERIC) # NullNode

\* C25: for a two-key binding K1 K2 of the keymap on top of the stack, K1
\* read outside a chord gives need-more-input with no command dispatched and
\* binding_node at the node of K1, and K2 read at that node dispatches the
\* bound command, once, with the static parameter of the binding.
C25_TwoKeyChordDispatchesOnce ==
    Dispatched =>
        LET k == obs.pre_kmaps[Len(obs.pre_kmaps)]
        IN  \A path \in TwoKeyBindings(k) :
                /\ ( /\ obs.pre.binding_node = NullNode
                      /\ obs.input = path[1]
                      /\ ~TakenAsDigit(RootOf(k), obs.input) )
                    => /\ obs.outcome = "need_more"
                       /\ obs.cmd = NULL
                       /\ Top.need_more_input
                       /\ Top.binding_node = NodePtr(k, <<path[1]>>)
                /\ ( /\ obs.pre.binding_node = NodePtr(k, <<path[1]>>)
                      /\ obs.pre.numeric = <<>>
                      /\ obs.input = path[2]
                      /\ ~TakenAsDigit(obs.pre.binding_node, obs.input) )
                    => /\ obs.outcome \in {"executed", "prompting"}
                       /\ obs.cmd = kmap_map[k].bindings[path].funcref
                       /\ DispatchedCmds(obs) = <<obs.cmd>>
                       /\ obs.seen.static_param =
                              kmap_map[k].bindings[path].static_param
                       /\ obs.via = "leaf"

\* C-c then d: copy-by with "bracket"
C25_Witness ==
    /\ Dispatched
    /\ obs.pre.binding_node = NodePtr("mle_normal", <<Key(<<"C","-","c">>)>>)
    /\ obs.input = Key(<<"d">>)
    /\ obs.outcome = "executed"
    /\ obs.cmd = "cmd_copy_by"
    /\ obs.seen.static_param = "bracket"

\* what the claim lets end a proc in an iteration at time now: its pipe is at
\* end of file or in error, its is_done flag is set, or its deadline is
\* reached
MayEnd(aproc, now) ==
    \/ aproc.pipe \in {"data_eof", "eof", "err"}
    \/ aproc.is_done
    \/ ~UtilTimevalIsGt(aproc.timeout, now)

\* C26: in an iteration that drains, a proc gets the done=1 callback at most
\* once and after its other callbacks, it gets it exactly when it leaves
\* editor->async_procs in that iteration, and only when it is at end of file,
\* in error, flagged is_done or at its deadline.
C26_FinalCallbackEndsProc ==
    obs.step = "drain" =>
        \A k \in 1..Len(obs.pre_procs) :
            /\ Cardinality(CallbacksOf(obs.pre_procs[k].id, 1)) <= 1
            /\ \A j \in CallbacksOf(obs.pre_procs[k].id, 1) :
                   \A i \in CallbacksOf(obs.pre_procs[k].id, 0) : i < j
            /\ (CallbacksOf(obs.pre_procs[k].id, 1) # {})
                   <=> ~ProcListed(obs.pre_procs[k].id)
            /\ (CallbacksOf(obs.pre_procs[k].id, 1) # {})
                   => MayEnd(obs.pre_procs[k], obs.now)

RECURSIVE SplitChain(_, _)
\* a view and, after it, its split-child, the split-child of that, and so on
SplitChain(V, b) ==
    IF V.bviews[b].split_child = NoView THEN <<b>>
    ELSE <<b>> \o SplitChain(V, V.bviews[b].split_child)

Reverse(seq) == [i \in 1..Len(seq) |-> seq[Len(seq) + 1 - i]]

Range(seq) == {seq[i] : i \in 1..Len(seq)}

\* the all-views ring of V without the views below b in its split chain
RingAbout(V, b) ==
    SelectSeq(V.all, LAMBDA x : x = b \/ x \notin Range(SplitChain(V, b)))

\* the neighbours of b in a ring
PrevIn(ring, b) ==
    LET i == CHOOSE i \in 1..Len(ring) : ring[i] = b
    IN  ring[IF i = 1 THEN Len(ring) ELSE i - 1]
NextIn(ring, b) ==
    LET i == CHOOSE i \in 1..Len(ring) : ring[i] = b
    IN  ring[IF i = Len(ring) THEN 1 ELSE i + 1]

\* the view the claim makes active when b is closed in V: the split-parent,
\* else the previous or else the next EDIT view of the ring; NoView when there
\* is none of them
CloseSuccessor(V, b) ==
    IF V.bviews[b].split_parent # NoView THEN V.bviews[b].split_parent
    ELSE IF /\ PrevIn(RingAbout(V, b), b) # b
            /\ MLE_BVIEW_IS_EDIT(V, PrevIn(RingAbout(V, b), b))
        THEN PrevIn(RingAbout(V, b), b)
    ELSE IF /\ NextIn(RingAbout(V, b), b) # b
            /\ MLE_BVIEW_IS_EDIT(V, NextIn(RingAbout(V, b), b))
        THEN NextIn(RingAbout(V, b), b)
    ELSE NoView

\* an editor_close_bview that returned MLE_OK destroyed the split chain of the
\* view from its end, the view itself last, counted the views it destroyed,
\* and took them off all_bviews and top_bviews, the other views keeping
\* their order; a blank EDIT view was put in front of all_bviews and at the
\* end of top_bviews when there was no successor
ClosedChain(pre, b) ==
    /\ obs.order = Reverse(SplitChain(pre, b))
    /\ obs.num_closed = Len(SplitChain(pre, b))
    /\ IF CloseSuccessor(pre, b) # NoView
       THEN /\ all_bviews =
                  SelectSeq(pre.all, LAMBDA x : x \notin Range(SplitChain(pre, b)))
            /\ top_bviews =
                  SelectSeq(pre.top, LAMBDA x : x \notin Range(SplitChain(pre, b)))
       ELSE /\ all_bviews # <<>>
            /\ Tail(all_bviews) =
                  SelectSeq(pre.all, LAMBDA x : x \notin Range(SplitChain(pre, b)))
            /\ top_bviews =
                  Append(SelectSeq(pre.top,
                                   LAMBDA x : x \notin Range(SplitChain(pre, b))),
                         Head(all_bviews))
            /\ Head(all_bviews) \notin Range(Tail(all_bviews))
            /\ bviews[Head(all_bviews)] = BviewNew(MLE_BVIEW_TYPE_EDIT)

TabPressed ==
    /\ obs.step = "turn"
    /\ obs.outcome = "executed"
    /\ obs.cmd = "_editor_prompt_input_complete"

\* that press was the first of its streak: the command executed before it in
\* this loop was another one, or none
FirstOfStreak == obs.pre.last_cmd # "_editor_prompt_input_complete"

\* the sorted candidates for a stem
CandidatesFor(stem) == SelectSeq(Files, LAMBDA f : IsPrefix(stem, f))

\* C28: the first tab press of a streak, on a line that fits the completion
\* term, snapshots the line as the stem and sets the index to 0; every later
\* press of the streak keeps the stem, which is the line the streak started
\* on, and adds one to the index; a press that has a stem with N >= 1
\* candidates sets the prompt buffer to candidate (index mod N).
C28_StreakKeepsStem ==
    TabPressed =>
        /\ ( /\ FirstOfStreak
              /\ Len(ActiveBuffer(obs.pre_views)) < MLE_LOOP_CTX_MAX_COMPLETE_TERM_SIZE )
            => /\ Top.tab_complete_term = ActiveBuffer(obs.pre_views)
               /\ Top.tab_complete_index = 0
               /\ CandidatesFor(Top.tab_complete_term) # <<>> =>
                      ActiveBuffer(ViewState) =
                          CandidatesFor(Top.tab_complete_term)[1]
        /\ ~FirstOfStreak
            => /\ Top.tab_complete_term = obs.pre.tab_complete_term
               /\ Top.tab_complete_term = hist.tab_orig
               /\ Top.tab_complete_index = obs.pre.tab_complete_index + 1
               /\ CandidatesFor(Top.tab_complete_term) # <<>> =>
                      ActiveBuffer(ViewState) =
                          CandidatesFor(Top.tab_complete_term)[
                              (Top.tab_complete_index
                                   % Len(CandidatesFor(Top.tab_complete_term))) + 1]

\* a peek of this event, outside a chord, on this keymap stack gives
\* cmd_insert_data
PeekIsInsert(stack, input) ==
    EditorGetCommand(stack, NewLoop(NoView, MainCont), input, TRUE).ref
        = "cmd_insert_data"

RECURSIVE InsertPrefix(_, _)
\* the events up to the first one that a peek does not resolve to
\* cmd_insert_data
InsertPrefix(stack, events) ==
    IF events = <<>> THEN <<>>
    ELSE IF ~PeekIsInsert(stack, Head(events)) THEN <<>>
    ELSE <<Head(events)>> \o InsertPrefix(stack, Tail(events))

\* the turn dispatched cmd_insert_data for an input the user typed, batch
\* being the events after it that were waiting up to the first that does not
\* resolve to cmd_insert_data: the paste buffer is the batch, the event after
\* the batch (if any) is the leftover, what follows is still in the terminal,
\* and the command ran once, for the input and the batch together
BatchedInsert(lc, batch, rest) ==
    /\ obs'.seen.pastebuf = batch
    /\ lc.has_pastebuf_leftover = (Len(batch) < Len(rest))
    /\ Len(batch) < Len(rest) =>
           /\ lc.pastebuf_leftover = rest[Len(batch) + 1]
           /\ tty' = SubSeq(rest, Len(batch) + 2, Len(rest))
    /\ Len(batch) = Len(rest) => tty' = <<>>
    /\ bviews[active].type = MLE_BVIEW_TYPE_PROMPT =>
           bviews'[active].buffer =
               bviews[active].buffer \o InsertedChars(<<obs'.input>> \o batch)

\* C29: a turn that dispatches cmd_insert_data for a user keystroke peeks the
\* events that are waiting, in order, puts in the paste buffer those that
\* resolve to cmd_insert_data up to the first that does not, and runs
\* cmd_insert_data once for all of them; a turn that dispatches it for an
\* input of a macro replay reads no terminal event and has an empty paste
\* buffer.
C29_PasteIsOneInsert ==
    [][(obs'.step = "turn" /\ obs'.outcome = "executed"
            /\ obs'.cmd = "cmd_insert_data") =>
          IF obs'.is_user_input
          THEN BatchedInsert(
                   loops'[Len(loops)],
                   InsertPrefix(bviews[active].kmaps,
                                IF Top.has_pastebuf_leftover THEN tty ELSE Tail(tty)),
                   IF Top.has_pastebuf_leftover THEN tty ELSE Tail(tty))
          ELSE /\ obs'.seen.pastebuf = <<>>
               /\ tty' = tty
               /\ loops'[Len(loops)].has_pastebuf_leftover
                      = Top.has_pastebuf_leftover]_vars

\* two characters typed in a burst into a prompt were inserted by one
\* cmd_insert_data
C29_Witness ==
    /\ obs.step = "turn"
    /\ obs.outcome = "executed"
    /\ obs.cmd = "cmd_insert_data"
    /\ obs.is_user_input
    /\ Len(obs.seen.pastebuf) = 1
    /\ prompt # NoView
    /\ Len(bviews[active].buffer) = Len(ActiveBuffer(obs.pre_views)) + 2

\* editor_set_active refuses the view: it is not in all_bviews, or a prompt
\* is open
SetActiveRefuses(V, bview) ==
    \/ bview \notin Range(V.all)
    \/ V.prompt # NoView

\* C30: editor_set_active returns MLE_ERR and leaves active, active_edit and
\* active_edit_root as they were when the view is not in all_bviews or a
\* prompt is open; otherwise it returns MLE_OK and makes the view active, and
\* active_edit and active_edit_root become the view and its split root when
\* the view is an EDIT view and stay as they were when it is not.
C30_SetActiveGuardsAndUpdates ==
    [][obs'.step = "set_active" =>
          IF SetActiveRefuses(ViewState, obs'.bview)
          THEN /\ obs'.rv = MLE_ERR
               /\ active' = active
               /\ active_edit' = active_edit
               /\ active_edit_root' = active_edit_root
          ELSE /\ obs'.rv = MLE_OK
               /\ active' = obs'.bview
               /\ IF bviews[obs'.bview].type = MLE_BVIEW_TYPE_EDIT
                  THEN /\ active_edit' = obs'.bview
                       /\ active_edit_root' = BviewGetSplitRoot(ViewState, obs'.bview)
                  ELSE /\ active_edit' = active_edit
                       /\ active_edit_root' = active_edit_root]_vars

\* a split child that was not the active view was made active, and the
\* split root is its parent
C30_Witness ==
    /\ obs.step = "set_active"
    /\ obs.rv = MLE_OK
    /\ obs.pre_views.active # obs.bview
    /\ obs.pre_views.bviews[obs.bview].split_parent # NoView
    /\ active = obs.bview
    /\ active_edit = obs.bview
    /\ active_edit_root = obs.pre_views.bviews[obs.bview].split_parent

\* editor_set_active refused a view of all_bviews because a prompt is open
C30_RefusedInPrompt ==
    /\ obs.step = "set_active"
    /\ obs.rv = MLE_ERR
    /\ obs.bview \in Range(obs.pre_views.all)
    /\ obs.pre_views.prompt # NoView

\* editor_set_active refused a view that is not in all_bviews
C30_RefusedUnlisted ==
    /\ obs.step = "set_active"
    /\ obs.rv = MLE_ERR
    /\ obs.bview \notin Range(obs.pre_views.all)
    /\ obs.pre_views.prompt = NoView

\* C31: when the innermost loop has no chord in progress (binding_node is
\* NULL when the next input is read), its numeric and wildcard parameter
\* buffers are empty: a chord that ended unbound, or resolved to a command
\* reference without a function, left no parameter behind.
C31_NoParamsBetweenChords ==
    Top.binding_node = NullNode =>
        /\ Top.numeric_params = <<>>
        /\ Top.wildcard_params = <<>>

\* C32: when the innermost loop has no chord pending (binding_node is NULL
\* after an input was handled), its digit accumulator is empty and it
\* remembers no numeric node: the next key is looked up from the top of the
\* keymap stack, never under the numeric edge of an abandoned chord.
C32_NoNumericStateBetweenChords ==
    Top.binding_node = NullNode =>
        /\ Top.numeric = <<>>
        /\ Top.numeric_node = NullNode

\* C33: a command dispatched through a keymap's default command sees no
\* static parameter (the command context starts with none, and only a trie
\* leaf has one), and a command dispatched through a trie leaf sees the
\* static parameter of that leaf.
C33_DefaultSeesNoStaticParam ==
    (Dispatched /\ obs.outcome \in {"executed", "prompting"}
        /\ obs.via = "default") => obs.seen.static_param = NULL

\* C34: an insertion that returned MLE_ERR left the trie as it was before
\* the call: no node was added, and every node that was there is still
\* there with its command, its static parameter and its memory.
C34_FailedInsertLeavesTrie ==
    (obs.step = "add_binding" /\ obs.rv = MLE_ERR) =>
        kmap_map["k"].bindings = obs.pre_trie

\* C35: a keystroke equal to the macro toggle keystroke is never the input
\* the resolver is asked to dispatch, and never an element of the paste
\* buffer a command sees, also when it was waiting in a burst of events.
C35_ToggleKeyOnlyToggles ==
    Dispatched =>
        /\ obs.input # macro_toggle_key
        /\ \A i \in 1..Len(obs.seen.pastebuf) :
               obs.seen.pastebuf[i] # macro_toggle_key

RECURSIVE OccursInOrder(_, _)
\* the elements of a occur in b, each once, in the order of a
OccursInOrder(a, b) ==
    IF a = <<>> THEN TRUE
    ELSE IF b = <<>> THEN FALSE
    ELSE IF Head(a) = Head(b) THEN OccursInOrder(Tail(a), Tail(b))
    ELSE OccursInOrder(a, Tail(b))

\* C36: when the toggle key stops a recording, the keystrokes that were read
\* off the terminal while recording, the stopping toggle key aside, are all
\* in the registered macro, once each and in the order they arrived, those
\* taken by paste ingestion included.
C36_TypedKeysAreRecorded ==
    (obs.step = "turn" /\ obs.outcome = "toggle_stop" /\ obs.is_user_input
        /\ rec_typed # <<>>) =>
        OccursInOrder(SubSeq(rec_typed, 1, Len(rec_typed) - 1),
                      macro_map[Len(macro_map)].inputs)

\* C37: no two entries of the macro registry have the same name.
C37_OneMacroPerName ==
    \A i, j \in 1..Len(macro_map) :
        macro_map[i].name = macro_map[j].name => i = j

\* the events the paste ingestion of the last turn peeked: those it put in
\* the paste buffer, and the one it left over
PeekedEvents ==
    obs.seen.pastebuf \o
        (IF obs.seen.has_pastebuf_leftover THEN <<obs.seen.pastebuf_leftover>>
         ELSE <<>>)

\* C38: for every event the paste ingestion of a turn peeked, the peek
\* resolution gives the command that a committing resolution of the same
\* input, on the same keymap stack and loop context, gives.
C38_PeekResolvesAsCommit ==
    (Dispatched /\ obs.outcome = "executed" /\ obs.cmd = "cmd_insert_data"
        /\ obs.is_user_input) =>
        \A i \in 1..Len(PeekedEvents) :
            EditorGetCommand(obs.pre_kmaps, obs.seen, PeekedEvents[i], TRUE).ref
                = EditorGetCommand(obs.pre_kmaps, obs.seen, PeekedEvents[i],
                                   FALSE).ref

\* C39: loop_depth is the number of _editor_loop calls that are running: 1
\* in the main loop, 2 exactly while the nested loop of a prompt runs, never
\* more than 2, and when a loop returns it is what it was before that loop
\* was entered.
C39_LoopDepthCountsLoops ==
    /\ loop_depth = Len(loops)
    /\ loop_depth \in {1, 2}
    /\ loop_depth = 2 <=> prompt # NoView
    /\ obs.step = "return" => loop_depth = obs.pre_depth - 1

\* the nested loop of a prompt that a command opened has returned into the
\* main loop
C39_Witness ==
    /\ obs.step = "return"
    /\ obs.cont.kind = "cmd"
    /\ obs.pre_depth = 2
    /\ loop_depth = 1
    /\ Len(loops) = 1
    /\ prompt = NoView

(***************************************************************************)
(* util_shell_exec.  shell holds the locals of one call and, for each end  *)
(* of the child's pipes, the number of close() calls made on it.           *)
(***************************************************************************)
\* bytes of input a call is given at most
MaxShellInput == 4

\* bytes of output the child writes at most
MaxShellOutput == 6

\* what util_popen2 stores in *ret_fdread and *ret_fdwrite, and the value 0
\* that util_shell_exec writes over writefd
ReadEnd == "pout[0]"
WriteEnd == "pin[1]"
NoFd == "0"

\* close(fd)
Close(sh, fd) == [sh EXCEPT !.closes[fd] = @ + 1]

\* util_shell_exec from a successful util_popen2 to the do loop
UtilShellExecStart(input_len) ==
    LET sh == [NoShell EXCEPT !.pc = "loop", !.input_len = input_len,
                              !.readfd = ReadEnd, !.writefd = WriteEnd,
                              !.rv = MLE_OK, !.last = "spawn"]
    IN  IF input_len < 1 THEN Close(sh, sh.writefd) ELSE sh

\* the write of an iteration: rc is what write returned (0 or less: error)
UtilShellExecWrite(sh, rc) ==
    IF sh.input_len > 0 THEN
        IF rc > 0 THEN
            IF sh.input_len - rc < 1
            THEN [Close(sh, sh.writefd) EXCEPT !.input_len = 0,
                                                !.writefd = NoFd]
            ELSE [sh EXCEPT !.input_len = @ - rc]
        ELSE [sh EXCEPT !.rv = MLE_ERR, !.pc = "break", !.last = "write_err"]
    ELSE sh

\* select and read of an iteration: sel is what select returned (-1, 0 or
\* 1) and nbytes what read returned
UtilShellExecRead(sh, sel, nbytes) ==
    IF sh.pc = "break" THEN sh
    ELSE IF sel < 0
        THEN [sh EXCEPT !.rv = MLE_ERR, !.pc = "break", !.last = "select_err"]
    ELSE IF sel = 0
        THEN [sh EXCEPT !.rv = MLE_ERR, !.pc = "break", !.last = "timeout"]
    ELSE IF nbytes < 0
        THEN [sh EXCEPT !.rv = MLE_ERR, !.pc = "break", !.last = "read_err"]
    ELSE IF nbytes > 0
        THEN [sh EXCEPT !.readbuf_len = @ + nbytes, !.last = "data"]
    ELSE [sh EXCEPT !.pc = "break", !.last = "eof"]

\* after the loop: if (readfd) close(readfd); if (writefd) close(writefd)
UtilShellExecEnd(sh) ==
    LET r == IF sh.readfd # NoFd THEN Close(sh, sh.readfd) ELSE sh
        w == IF r.writefd # NoFd THEN Close(r, r.writefd) ELSE r
    IN  [w EXCEPT !.pc = "returned"]

\* one iteration of the do loop, and the end of the call when the loop ends
UtilShellExecIteration(sh) ==
    IF sh.pc = "break" THEN UtilShellExecEnd(sh) ELSE sh

\* the step leaves everything but shell alone
ShellStep(sh) ==
    /\ shell' = sh
    /\ obs' = [NoObs EXCEPT !.step = "shell"]
    /\ UNCHANGED <<kmapVars, viewVars, macroVars, loopVars, asyncVars,
                   scenario, rec_typed, nbind, hist>>

\* util_shell_exec is called and util_popen2 succeeds
ShellExec(input_len) ==
    /\ shell.pc = "idle"
    /\ ShellStep(UtilShellExecStart(input_len))

\* util_shell_exec is called and util_popen2 fails
ShellExecFails ==
    /\ shell.pc = "idle"
    /\ ShellStep([NoShell EXCEPT !.pc = "failed", !.rv = MLE_ERR])

\* the results the system calls of an iteration can give
WriteResults(sh) == IF sh.input_len > 0 THEN {-1} \cup 1..sh.input_len ELSE {0}
SelectResults == {-1, 0, 1}
ReadResults(sh) == -1..(MaxShellOutput - sh.readbuf_len)

ShellIteration(rc, sel, nbytes) ==
    /\ shell.pc = "loop"
    /\ ShellStep(UtilShellExecIteration(
           UtilShellExecRead(UtilShellExecWrite(shell, rc), sel, nbytes)))

InitShell ==
    /\ InitEditor("shell")
    /\ kmap_map = EditorInitKmaps

NextShell ==
    \/ \E input_len \in 0..MaxShellInput : ShellExec(input_len)
    \/ ShellExecFails
    \/ \E rc \in WriteResults(shell), sel \in SelectResults,
          nbytes \in ReadResults(shell) : ShellIteration(rc, sel, nbytes)

SpecShell == InitShell /\ [][NextShell]_vars

\* C40: when util_shell_exec has returned after a successful spawn, close
\* was called exactly once on the read end and exactly once on the write
\* end of the child's pipes, whatever ended the call; and at no moment was
\* either end closed twice.
C40_EachPipeEndClosedOnce ==
    /\ shell.pc \in {"loop", "returned"} =>
           /\ shell.closes[ReadEnd] <= 1
           /\ shell.closes[WriteEnd] <= 1
    /\ shell.pc = "returned" =>
           /\ shell.closes[ReadEnd] = 1
           /\ shell.closes[WriteEnd] = 1
====
